---- MODULE Spec2Model ----
(***************************************************************************)
(* Indie-Hain distribution backend: session security (backend/auth.py),    *)
(* chunk store, build finalize, review gate and download endpoints         *)
(* (backend/main.py) over the tables of backend/db.py; and the launcher's  *)
(* publisher and player clients.                                           *)
(*                                                                         *)
(* Several specifications share the variables:                             *)
(*   SpecAuth   sessions, access and refresh tokens, one refresh handler   *)
(*   SpecRace   two refresh_tokens handlers at a time                      *)
(*   SpecStore  the chunk store under concurrent upload_chunk calls        *)
(*   SpecDist   apps, builds, submissions, purchases and downloads         *)
(*   SpecPublish  SpecDist with unpublish, any manifest for any build      *)
(*   SpecRoundTrip  the publisher client (services/uploader_client.py)     *)
(*              uploads a folder, the player client                        *)
(*              (distribution_client/downloader.py) installs it            *)
(*   SpecInstall  the player client with any manifest and any network      *)
(*   SpecRoles  the role gates of the publisher and admin endpoints        *)
(*   SpecOwner  two developers, each calling the other's apps and builds   *)
(*   SpecReset  password changes and temporary passwords (backend/auth.py) *)
(*   SpecLogout  login, logout and refresh for one or two users            *)
(*   SpecFinalize  finalize_build with well-formed and refused manifests   *)
(*   SpecDiff   missing_chunks beside concurrent upload_chunk calls        *)
(*   SpecPool   the thread pool of the player client's chunk fetches       *)
(*   SpecFinalizeRace  two finalize_build handlers at a time               *)
(*   SpecStaleRole  a token issued before the role of its user changed     *)
(*   SpecEscalate  the endpoints that write users.role                     *)
(* A specification leaves the other subsystems' tables unchanged.          *)
(***************************************************************************)
EXTENDS Integers, Sequences, FiniteSets, TLC

VARIABLES
    now,            \* the clock read by _now(), in ticks
    users,          \* table users: row i has id i
    sessions,       \* table sessions: row i has id <<i>>
    nextSecret,     \* the next value secrets.token_urlsafe() returns
    refreshTokens,  \* every refresh token handed to a client so far
    accessTokens,   \* every access token (JWT) signed so far
    rpc,            \* refresh_tokens handler p: its position
    rcall,          \* refresh_tokens handler p: its arguments
    okCount,        \* per presented refresh token: calls that returned tokens
    chunks,         \* table chunks, in insertion order
    disk,           \* the files under storage/: path -> content
    upc,            \* handler p of upload_chunk, finalize_build or
                    \* admin_set_role: its position
    ucall,          \* handler p: its arguments
    writes,         \* per hash: how often upload_chunk wrote its bytes
    putOk,          \* per hash: upload_chunk calls that answered 200
    apps,           \* table apps: row i has id i
    builds,         \* table builds: row i has id i
    submissions,    \* table submissions: row i has id i
    purchases,      \* table purchases
    resp,           \* the last answer of the API
    folder,         \* publisher: the files of the build folder, in rglob order
    up,             \* publisher: upload_folder, its position and locals
    inst,           \* player: install_from_manifest, its position and locals
    fsys            \* player: the directories and files of the machine

sessVars == <<now, users, sessions, nextSecret, refreshTokens, accessTokens,
              rpc, rcall, okCount>>

storeVars == <<chunks, disk, upc, ucall, writes, putOk>>

distVars == <<apps, builds, submissions, purchases>>

clientVars == <<folder, up, inst, fsys>>

vars == <<sessVars, storeVars, distVars, resp, clientVars>>

----------------------------------------------------------------------------
(* Bounds of the model *)

MaxTime == 2
MaxSessions == 2
MaxSecrets == 3

(* auth.py:16-17, in ticks of the model's clock: the access token outlives  *)
(* one tick, the refresh token two (the code: 15 minutes and 30 days).      *)
ACCESS_TTL == 1
REFRESH_TTL == 2

RefreshProcs == {"r1", "r2"}
Passwords == {"pw1", "pw2"}
NoDevice == ""
Devices == {"devA", "devB"}
Roles == {"user", "dev", "admin"}

(* SQL NULL / Python None *)
NULL == <<>>

Range(s) == {s[i] : i \in DOMAIN s}

----------------------------------------------------------------------------
(* auth.py helpers *)

(* _hash_password / _verify_password: salted PBKDF2, a one-way image of    *)
(* the password.                                                           *)
HashPassword(password) == [pbkdf2 |-> password]

VerifyPassword(password, stored) == HashPassword(password) = stored

(* _hash_refresh_secret: HMAC-SHA256 of the secret part *)
HashRefreshSecret(secret_part) == [hmac |-> secret_part]

(* A refresh token is the string session_id + "." + secret; the model      *)
(* keeps it as the sequence of its atoms, Dot standing for the "."         *)
(* character.                                                              *)
Dot == 0

BuildRefreshToken(session_id, secret_part) == session_id \o <<Dot>> \o secret_part

FirstDot(t) == CHOOSE i \in 1..Len(t) : t[i] = Dot /\ \A j \in 1..(i-1) : t[j] # Dot

(* _parse_refresh_token: NULL or <<session_id, secret_part>> *)
ParseRefreshToken(refresh_token) ==
    IF refresh_token = <<>> \/ Dot \notin Range(refresh_token)
    THEN NULL
    ELSE LET i == FirstDot(refresh_token)
             session_id == SubSeq(refresh_token, 1, i - 1)
             secret_part == SubSeq(refresh_token, i + 1, Len(refresh_token))
         IN  IF session_id = <<>> \/ secret_part = <<>>
             THEN NULL
             ELSE <<session_id, secret_part>>

(* _session_row: the row with this id, or NULL *)
HasSession(session_id) == \E i \in DOMAIN sessions : sessions[i].id = session_id

SessionIndex(session_id) == CHOOSE i \in DOMAIN sessions : sessions[i].id = session_id

SessionRow(session_id) ==
    IF HasSession(session_id) THEN sessions[SessionIndex(session_id)] ELSE NULL

(* an expiry test no row fails *)
RowExpiredNever(row) == FALSE

(* the expiry test shared by _session_active and refresh_tokens *)
RowExpired(row) ==
    row.refresh_expires_at # NULL /\ now >= row.refresh_expires_at[1]

(* a session check that looks at the expiry only *)
SessionUnexpired(session_id) ==
    LET row == SessionRow(session_id)
    IN  /\ row # NULL
        /\ ~RowExpired(row)

(* _session_active *)
SessionActive(session_id) ==
    LET row == SessionRow(session_id)
    IN  /\ row # NULL
        /\ row.revoked_at = NULL
        /\ ~RowExpired(row)

(* _user_by_id *)
UserById(user_id) ==
    IF user_id \in DOMAIN users
    THEN [id |-> user_id, email |-> users[user_id].email, role |-> users[user_id].role]
    ELSE NULL

(* _user_by_email *)
HasEmail(email) == \E i \in DOMAIN users : users[i].email = email

UserIdByEmail(email) == CHOOSE i \in DOMAIN users : users[i].email = email

(* _issue_access_token: the signed claims *)
IssueAccessToken(user, session_id, device_id) ==
    [sub |-> user.id, role |-> user.role, sid |-> session_id,
     device_id |-> device_id, exp |-> now + ACCESS_TTL, sig |-> "valid"]

(* _decode_access_token: "" and the claims are usable, or the error *)
DecodeError(token) ==
    IF token.sig # "valid" THEN "Invalid token"
    ELSE IF ~(now < token.exp) THEN "Token expired"
    ELSE ""

(* session_id_from_access_token *)
SessionIdFromAccessToken(token) == IF DecodeError(token) = "" THEN token.sid ELSE NULL

(* _create_session: the new row *)
NewSessionRow(session_id, user_id, device_id, secret_part) ==
    [id |-> session_id, user_id |-> user_id, device_id |-> device_id,
     refresh_token_hash |-> HashRefreshSecret(secret_part),
     refresh_expires_at |-> <<now + REFRESH_TTL>>,
     revoked_at |-> NULL]

Denied(detail) == [status |-> 401, detail |-> detail, user |-> NULL]

(* get_user_from_headers + require_user: 200 and the user, or 401 *)
Authenticate(token) ==
    IF token = NULL THEN Denied("Authentication required")
    ELSE IF DecodeError(token) # "" THEN Denied(DecodeError(token))
    ELSE IF token.sid = NULL \/ ~SessionActive(token.sid) THEN Denied("Invalid session")
    ELSE IF UserById(token.sub) = NULL THEN Denied("Invalid token")
    ELSE [status |-> 200, detail |-> "", user |-> UserById(token.sub)]

(* a logout that revokes nothing *)
RevokedNobody(session_id) == sessions

(* UPDATE sessions SET revoked_at = now WHERE id = session_id *)
RevokedById(session_id) ==
    [i \in DOMAIN sessions |->
        IF sessions[i].id = session_id
        THEN [sessions[i] EXCEPT !.revoked_at = <<now>>]
        ELSE sessions[i]]

(* a role change that revokes nothing *)
RevokedForNobody(user_id) == sessions

(* UPDATE sessions SET revoked_at = now WHERE user_id = user_id *)
RevokedForUser(user_id) ==
    [i \in DOMAIN sessions |->
        IF sessions[i].user_id = user_id
        THEN [sessions[i] EXCEPT !.revoked_at = <<now>>]
        ELSE sessions[i]]

----------------------------------------------------------------------------
(* Session security: the endpoints of backend/main.py over auth.py *)

EmailOf == <<"e1", "e2", "e3", "e4">>

(* a refresh_tokens handler between its steps keeps session_id and          *)
(* secret_part; stale records whether the presented token was a rotated-    *)
(* away one when the call started                                          *)
IdleCall == [sid |-> NULL, secret_part |-> NULL, stale |-> FALSE]

(* An answer: the endpoint, the HTTP status, the error detail, the session  *)
(* the call named, the content returned (with "Refresh reuse detected": the *)
(* secret the refused call presented) and, for the distribution endpoints, *)
(* the caller and the parameters of the call.                              *)
NoResp == [op |-> "none", status |-> 0, detail |-> "", sid |-> NULL, body |-> NULL,
           req |-> NULL]

Resp(op, status, detail) == [NoResp EXCEPT !.op = op, !.status = status, !.detail = detail]

(* secrets that refresh_tokens handlers past their check will still draw *)
SecretsReserved == Cardinality({p \in RefreshProcs : rpc[p] = "rotate"})

SecretsLeft == nextSecret + SecretsReserved <= MaxSecrets

(* issue_tokens: _create_session, then _issue_access_token *)
IssueTokens(user, device_id) ==
    LET session_id == <<Len(sessions) + 1>>
        secret_part == <<nextSecret>>
    IN  /\ sessions' = Append(sessions,
                              NewSessionRow(session_id, user.id, device_id, secret_part))
        /\ nextSecret' = nextSecret + 1
        /\ refreshTokens' = refreshTokens \cup {BuildRefreshToken(session_id, secret_part)}
        /\ accessTokens' = accessTokens \cup {IssueAccessToken(user, session_id, device_id)}

(* POST /api/auth/register: create_user, then issue_tokens *)
AuthRegister(email, password, device_id) ==
    /\ UNCHANGED <<storeVars, distVars, clientVars>>
    /\ IF email = "" \/ password = ""
       THEN /\ resp' = Resp("register", 400, "email, password, username required")
            /\ UNCHANGED sessVars
       ELSE IF HasEmail(email)
       THEN /\ resp' = Resp("register", 409, "email already exists")
            /\ UNCHANGED sessVars
       ELSE /\ Len(sessions) < MaxSessions
            /\ SecretsLeft
            /\ users' = Append(users, [email |-> email, role |-> "user",
                                       password_hash |-> HashPassword(password),
                                       temp_password_hash |-> NULL,
                                       force_password_reset |-> 0])
            /\ IssueTokens([id |-> Len(users) + 1, email |-> email, role |-> "user"],
                           device_id)
            /\ resp' = [Resp("register", 200, "") EXCEPT !.sid = <<Len(sessions) + 1>>]
            /\ UNCHANGED <<now, rpc, rcall, okCount>>

(* authenticate: the user, or NULL; with force_password_reset set only the *)
(* temporary password is accepted and the user carries must_reset_password *)
AuthenticateByEmail(email, password) ==
    IF ~HasEmail(email) THEN NULL
    ELSE LET user == users[UserIdByEmail(email)]
         IN  IF user.force_password_reset # 0
             THEN IF /\ user.temp_password_hash # NULL
                     /\ VerifyPassword(password, user.temp_password_hash)
                  THEN [must_reset_password |-> TRUE] @@ UserById(UserIdByEmail(email))
                  ELSE NULL
             ELSE IF VerifyPassword(password, user.password_hash)
             THEN UserById(UserIdByEmail(email))
             ELSE NULL

(* POST /api/auth/login *)
AuthLogin(email, password, device_id) ==
    /\ UNCHANGED <<storeVars, distVars, clientVars>>
    /\ LET user == AuthenticateByEmail(email, password)
       IN  IF user = NULL
           THEN /\ resp' = Resp("login", 401, "Invalid credentials")
                /\ UNCHANGED sessVars
           ELSE /\ Len(sessions) < MaxSessions
                /\ SecretsLeft
                /\ IssueTokens(user, device_id)
                /\ resp' = [Resp("login", 200, "") EXCEPT !.sid = <<Len(sessions) + 1>>]
                /\ UNCHANGED <<now, users, rpc, rcall, okCount>>

(* refresh_tokens without reuse detection: a wrong secret is refused and   *)
(* the session stays as it is                                              *)
RefreshCheckNoReuse(refresh_token, device_id) ==
    LET parsed == ParseRefreshToken(refresh_token)
    IN  IF parsed = NULL THEN "Invalid refresh token"
        ELSE LET row == SessionRow(parsed[1])
             IN  IF row = NULL THEN "Invalid refresh token"
                 ELSE IF row.revoked_at # NULL THEN "Invalid refresh token"
                 ELSE IF RowExpired(row) THEN "Refresh token expired"
                 ELSE IF /\ device_id # NoDevice
                         /\ row.device_id # NoDevice
                         /\ device_id # row.device_id THEN "Device mismatch"
                 ELSE IF HashRefreshSecret(parsed[2]) # row.refresh_token_hash
                 THEN "Invalid refresh token"
                 ELSE "rotate"

(* refresh_tokens, lines 229-246: parse, read the row (_session_row, a      *)
(* connection of its own), and decide on that copy of the row.             *)
RefreshCheck(refresh_token, device_id) ==
    LET parsed == ParseRefreshToken(refresh_token)
    IN  IF parsed = NULL THEN "Invalid refresh token"
        ELSE LET row == SessionRow(parsed[1])
             IN  IF row = NULL THEN "Invalid refresh token"
                 ELSE IF row.revoked_at # NULL THEN "Invalid refresh token"
                 ELSE IF RowExpired(row) THEN "Refresh token expired"
                 ELSE IF /\ device_id # NoDevice
                         /\ row.device_id # NoDevice
                         /\ device_id # row.device_id THEN "Device mismatch"
                 ELSE IF HashRefreshSecret(parsed[2]) # row.refresh_token_hash
                 THEN "revoke"
                 ELSE "rotate"

(* what held of the presented token and its session when the call started: *)
(*   known     the token names a session of the table                      *)
(*   stale     the token was handed out for the session and its secret is  *)
(*             no longer the stored one (rotated away)                      *)
(*   current   the token's secret is the stored one                        *)
(*   revoked, expired, device   the session was revoked, was past its      *)
(*             expiry, is bound to a device id other than the caller's     *)
CallFacts(refresh_token, device_id) ==
    LET parsed == ParseRefreshToken(refresh_token)
        known == parsed # NULL /\ \E i \in DOMAIN sessions : sessions[i].id = parsed[1]
        row == sessions[CHOOSE i \in DOMAIN sessions : sessions[i].id = parsed[1]]
    IN  IF ~known THEN {}
        ELSE {"known"}
             \cup (IF /\ refresh_token \in refreshTokens
                      /\ row.refresh_token_hash # [hmac |-> parsed[2]]
                   THEN {"stale"} ELSE {})
             \cup (IF row.refresh_token_hash = [hmac |-> parsed[2]]
                   THEN {"current"} ELSE {})
             \cup (IF row.revoked_at # NULL THEN {"revoked"} ELSE {})
             \cup (IF now >= row.refresh_expires_at[1] THEN {"expired"} ELSE {})
             \cup (IF /\ device_id # NoDevice
                      /\ row.device_id # NoDevice
                      /\ device_id # row.device_id
                   THEN {"device"} ELSE {})

NewCall(refresh_token, device_id) ==
    [sid |-> ParseRefreshToken(refresh_token)[1],
     secret_part |-> ParseRefreshToken(refresh_token)[2],
     stale |-> "stale" \in CallFacts(refresh_token, device_id)]

SidOf(refresh_token) ==
    IF ParseRefreshToken(refresh_token) = NULL
    THEN NULL ELSE ParseRefreshToken(refresh_token)[1]

Returned(session_id, status, detail) ==
    [Resp("refresh", status, detail) EXCEPT !.sid = session_id]

(* POST /api/auth/refresh, first step: the read and the checks *)
RefreshStart(p, refresh_token, device_id) ==
    /\ rpc[p] = "idle"
    /\ LET step == RefreshCheck(refresh_token, device_id)
       IN  IF step \in {"revoke", "rotate"}
           THEN /\ step = "rotate" => SecretsLeft
                /\ rpc' = [rpc EXCEPT ![p] = step]
                /\ rcall' = [rcall EXCEPT ![p] = NewCall(refresh_token, device_id)]
                /\ UNCHANGED resp
           ELSE /\ resp' = Returned(SidOf(refresh_token), 401, step)
                /\ UNCHANGED <<rpc, rcall>>
    /\ UNCHANGED <<now, users, sessions, nextSecret, refreshTokens, accessTokens,
                   okCount>>
    /\ UNCHANGED <<storeVars, distVars, clientVars>>

(* refresh_tokens, lines 247-253: the hash differs, revoke and raise *)
RefreshRevoke(p) ==
    /\ rpc[p] = "revoke"
    /\ sessions' = RevokedById(rcall[p].sid)
    /\ resp' = [Returned(rcall[p].sid, 401, "Refresh reuse detected") EXCEPT
                  !.body = [presented |-> rcall[p].secret_part]]
    /\ rpc' = [rpc EXCEPT ![p] = "idle"]
    /\ rcall' = [rcall EXCEPT ![p] = IdleCall]
    /\ UNCHANGED <<now, users, nextSecret, refreshTokens, accessTokens, okCount>>
    /\ UNCHANGED <<storeVars, distVars, clientVars>>

(* a rotation that also clears revoked_at *)
RotatedReviving(session_id, new_hash) ==
    [i \in DOMAIN sessions |->
        IF sessions[i].id = session_id
        THEN [sessions[i] EXCEPT !.refresh_token_hash = new_hash,
                                 !.refresh_expires_at = <<now + REFRESH_TTL>>,
                                 !.revoked_at = NULL]
        ELSE sessions[i]]

(* UPDATE sessions SET refresh_token_hash, last_used_at, refresh_expires_at *)
(* WHERE id = session_id                                                    *)
Rotated(session_id, new_hash) ==
    [i \in DOMAIN sessions |->
        IF sessions[i].id = session_id
        THEN [sessions[i] EXCEPT !.refresh_token_hash = new_hash,
                                 !.refresh_expires_at = <<now + REFRESH_TTL>>]
        ELSE sessions[i]]

Bump(f, x) == IF x \in DOMAIN f THEN [f EXCEPT ![x] = @ + 1] ELSE f @@ (x :> 1)

(* refresh_tokens, lines 255-279: the hash matched; read the user, write    *)
(* the new hash and expiry, sign the tokens. user_id and device_id come    *)
(* from the row read at the start; no statement changes them.              *)
RefreshRotate(p) ==
    /\ rpc[p] = "rotate"
    /\ LET session_id == rcall[p].sid
           row == SessionRow(session_id)
           user == UserById(row.user_id)
           new_secret == <<nextSecret>>
       IN  IF user = NULL
           THEN /\ resp' = Returned(session_id, 401, "Invalid refresh token")
                /\ UNCHANGED <<sessions, nextSecret, refreshTokens, accessTokens,
                               okCount>>
           ELSE /\ sessions' = Rotated(session_id, HashRefreshSecret(new_secret))
                /\ nextSecret' = nextSecret + 1
                /\ accessTokens' = accessTokens \cup
                                     {IssueAccessToken(user, session_id, row.device_id)}
                /\ refreshTokens' = refreshTokens \cup
                                      {BuildRefreshToken(session_id, new_secret)}
                /\ okCount' = Bump(okCount,
                                    BuildRefreshToken(session_id, rcall[p].secret_part))
                /\ resp' = Returned(session_id, 200, "")
    /\ rpc' = [rpc EXCEPT ![p] = "idle"]
    /\ rcall' = [rcall EXCEPT ![p] = IdleCall]
    /\ UNCHANGED <<now, users>>
    /\ UNCHANGED <<storeVars, distVars, clientVars>>

(* POST /api/auth/logout *)
AuthLogout(bearer, refresh_token) ==
    LET by_bearer == IF bearer = NULL THEN NULL ELSE SessionIdFromAccessToken(bearer)
        parsed == ParseRefreshToken(refresh_token)
    IN  /\ IF by_bearer # NULL
           THEN /\ sessions' = RevokedById(by_bearer)
                /\ resp' = [Resp("logout", 200, "") EXCEPT !.sid = by_bearer]
           ELSE IF refresh_token # <<>>
           THEN /\ sessions' = IF parsed = NULL THEN sessions ELSE RevokedById(parsed[1])
                /\ resp' = [Resp("logout", 200, "") EXCEPT
                              !.sid = IF parsed = NULL THEN NULL ELSE parsed[1]]
           ELSE /\ resp' = Resp("logout", 400, "Missing session")
                /\ UNCHANGED sessions
        /\ UNCHANGED <<now, users, nextSecret, refreshTokens, accessTokens, rpc, rcall,
                       okCount>>
        /\ UNCHANGED <<storeVars, distVars, clientVars>>

(* set_role_by_id: UPDATE users SET role WHERE id *)
RoleSet(user_id, role) ==
    [i \in DOMAIN users |-> IF i = user_id THEN [users[i] EXCEPT !.role = role] ELSE users[i]]

(* a gate that lets every authenticated caller pass *)
RequireAnyRole(bearer) == Authenticate(bearer)

(* require_admin over require_user *)
RequireAdmin(bearer) ==
    LET auth == Authenticate(bearer)
    IN  IF auth.status # 200 THEN auth
        ELSE IF auth.user.role # "admin"
        THEN [status |-> 403, detail |-> "Admin role required", user |-> NULL]
        ELSE auth

(* POST /api/admin/users/{user_id}/role:                                   *)
(* set_role_by_id(user_id, role, revoke_sessions=True)                     *)
AdminSetRole(bearer, user_id, role) ==
    LET auth == RequireAdmin(bearer)
    IN  /\ IF auth.status # 200
           THEN /\ resp' = Resp("set_role", auth.status, auth.detail)
                /\ UNCHANGED <<users, sessions>>
           ELSE IF role \notin Roles
           THEN /\ resp' = Resp("set_role", 400, "invalid role")
                /\ UNCHANGED <<users, sessions>>
           ELSE /\ users' = RoleSet(user_id, role)
                /\ sessions' = RevokedForUser(user_id)
                /\ resp' = IF user_id \in DOMAIN users
                           THEN Resp("set_role", 200, "")
                           ELSE Resp("set_role", 404, "user not found")
        /\ UNCHANGED <<now, nextSecret, refreshTokens, accessTokens, rpc, rcall,
                       okCount>>
        /\ UNCHANGED <<storeVars, distVars, clientVars>>

(* the configured ADMIN_BOOTSTRAP_SECRET *)
BootstrapSecret == "bootstrap-secret"

(* POST /api/auth/bootstrap-admin: set_role_by_email(email, "admin") *)
AuthBootstrapAdmin(email, secret) ==
    /\ IF BootstrapSecret = "" \/ secret # BootstrapSecret
       THEN /\ resp' = Resp("bootstrap", 403, "Bootstrap disabled or invalid secret")
            /\ UNCHANGED users
       ELSE IF ~HasEmail(email)
       THEN /\ resp' = Resp("bootstrap", 404, "user not found")
            /\ UNCHANGED users
       ELSE /\ users' = RoleSet(UserIdByEmail(email), "admin")
            /\ resp' = Resp("bootstrap", 200, "")
    /\ UNCHANGED <<now, sessions, nextSecret, refreshTokens, accessTokens, rpc, rcall,
                   okCount>>
    /\ UNCHANGED <<storeVars, distVars, clientVars>>

(* set_user_password: UPDATE users SET password_hash WHERE id *)
SetUserPassword(user_id, new_password) ==
    /\ IF new_password = ""
       THEN /\ resp' = Resp("set_user_password", 400, "password required")
            /\ UNCHANGED users
       ELSE /\ users' = [i \in DOMAIN users |->
                            IF i = user_id
                            THEN [users[i] EXCEPT !.password_hash = HashPassword(new_password)]
                            ELSE users[i]]
            /\ resp' = IF user_id \in DOMAIN users
                       THEN Resp("set_user_password", 200, "")
                       ELSE Resp("set_user_password", 404, "user not found")
    /\ UNCHANGED <<now, sessions, nextSecret, refreshTokens, accessTokens, rpc, rcall,
                   okCount>>
    /\ UNCHANGED <<storeVars, distVars, clientVars>>

(* set_temp_password: UPDATE users SET temp_password_hash,                 *)
(* force_password_reset = 1 WHERE id                                       *)
SetTempPassword(user_id, temp_password) ==
    /\ IF temp_password = ""
       THEN /\ resp' = Resp("set_temp_password", 400, "temp password required")
            /\ UNCHANGED users
       ELSE /\ users' = [i \in DOMAIN users |->
                            IF i = user_id
                            THEN [users[i] EXCEPT
                                     !.temp_password_hash = HashPassword(temp_password),
                                     !.force_password_reset = 1]
                            ELSE users[i]]
            /\ resp' = IF user_id \in DOMAIN users
                       THEN Resp("set_temp_password", 200, "")
                       ELSE Resp("set_temp_password", 404, "user not found")
    /\ UNCHANGED <<now, sessions, nextSecret, refreshTokens, accessTokens, rpc, rcall,
                   okCount>>
    /\ UNCHANGED <<storeVars, distVars, clientVars>>

(* clear_temp_password: UPDATE users SET temp_password_hash = NULL,        *)
(* force_password_reset = 0 WHERE id                                       *)
ClearTempPassword(user_id) ==
    /\ users' = [i \in DOMAIN users |->
                    IF i = user_id
                    THEN [users[i] EXCEPT !.temp_password_hash = NULL,
                                          !.force_password_reset = 0]
                    ELSE users[i]]
    /\ resp' = IF user_id \in DOMAIN users
               THEN Resp("clear_temp_password", 200, "")
               ELSE Resp("clear_temp_password", 404, "user not found")
    /\ UNCHANGED <<now, sessions, nextSecret, refreshTokens, accessTokens, rpc, rcall,
                   okCount>>
    /\ UNCHANGED <<storeVars, distVars, clientVars>>

(* Authorize: get_user_from_headers and require_user, as GET /api/auth/me *)
(* runs them                                                               *)
Authorize(bearer) ==
    /\ resp' = [Resp("authorize", Authenticate(bearer).status, Authenticate(bearer).detail)
                   EXCEPT !.sid = bearer.sid]
    /\ UNCHANGED <<sessVars, storeVars, distVars, clientVars>>

(* time passes *)
Tick ==
    /\ now < MaxTime
    /\ now' = now + 1
    /\ UNCHANGED <<users, sessions, nextSecret, refreshTokens, accessTokens, rpc, rcall,
                   okCount, resp>>
    /\ UNCHANGED <<storeVars, distVars, clientVars>>

(* what a client can present *)
DeviceInputs == Devices \cup {NoDevice}

(* a refresh token with a secret never handed out, for every session; an    *)
(* unknown session; strings without a dot, without a secret, without an id *)
ForgedRefreshTokens ==
    {BuildRefreshToken(sessions[i].id, <<0 - 1>>) : i \in DOMAIN sessions}
        \cup {<<MaxSessions + 1, Dot, 1>>, <<1>>, <<1, Dot>>, <<Dot, 1>>}

RefreshInputs == refreshTokens \cup ForgedRefreshTokens

(* a token the server did not sign: it names the first account and its     *)
(* session, claims the admin role and does not expire within the model     *)
ForgedBearer ==
    [sub |-> 1, role |-> "admin", sid |-> <<1>>, device_id |-> NoDevice,
     exp |-> MaxTime + ACCESS_TTL + 1, sig |-> "forged"]

BearerInputs == accessTokens \cup {ForgedBearer}

(* logout takes the session from the bearer token, else from the refresh   *)
(* token of the body                                                       *)
LogoutInputs ==
    {<<b, <<>>>> : b \in BearerInputs \cup {NULL}}
        \cup {<<b, t>> : b \in {NULL, ForgedBearer}, t \in RefreshInputs}

----------------------------------------------------------------------------
(* Chunk store: helpers of backend/main.py *)

UploadProcs == {"u1", "u2"}

MaxPuts == 3

(* SHA256_RE is ^[a-f0-9]{64}$; the model's digests have HashLen digits *)
HashLen == 4

HexDigits == {"0", "1", "2", "3", "4", "5", "6", "7", "8", "9",
              "a", "b", "c", "d", "e", "f"}

(* SHA256_RE.match *)
IsSha256(value) ==
    /\ Len(value) = HashLen
    /\ \A i \in 1..Len(value) : value[i] \in HexDigits

(* the chunk contents of the model and their lengths *)
Bodies == {"x", "y", "z"}

BodyLen(body) == CASE body = "x" -> 1 [] body = "y" -> 2 [] body = "z" -> 3

(* hashlib.sha256(body).hexdigest(): no two bodies share a digest *)
Sha256(body) ==
    CASE body = "x" -> <<"a", "1", "0", "f">>
      [] body = "y" -> <<"b", "2", "0", "f">>
      [] body = "z" -> <<"a", "1", "9", "c">>

ChunkHashes == {Sha256(body) : body \in Bodies}

(* hex_shard: STORAGE_CHUNKS / h[0:2] / h[2:4] / h *)
HexShard(h) == << <<"chunks">>, SubSeq(h, 1, 2), SubSeq(h, 3, 4), h >>

(* a lookup in the chunks table instead of the storage directory *)
ExistsIndexed(path) == \E i \in DOMAIN chunks : chunks[i].storage_path = path

(* Path.exists *)
Exists(path) == path \in DOMAIN disk

(* a gate that takes the role from the claims of the token *)
RequireDevByClaim(bearer) ==
    LET auth == Authenticate(bearer)
    IN  IF auth.status # 200 THEN auth
        ELSE IF bearer.role \notin {"dev", "admin"}
        THEN [status |-> 403, detail |-> "Developer role required", user |-> NULL]
        ELSE auth

(* require_dev over require_user *)
RequireDev(bearer) ==
    LET auth == Authenticate(bearer)
    IN  IF auth.status # 200 THEN auth
        ELSE IF auth.user.role \notin {"dev", "admin"}
        THEN [status |-> 403, detail |-> "Developer role required", user |-> NULL]
        ELSE auth

(* SELECT hash FROM chunks WHERE hash = ? *)
ChunkRows(hash) == {i \in DOMAIN chunks : chunks[i].hash = hash}

(* an UPDATE that leaves ref_count as it is *)
RefCountKept(hash) == chunks

(* UPDATE chunks SET ref_count = ref_count + 1 WHERE hash = ? *)
RefCountBumped(hash) ==
    [i \in DOMAIN chunks |->
        IF chunks[i].hash = hash
        THEN [chunks[i] EXCEPT !.ref_count = @ + 1]
        ELSE chunks[i]]

(* the row of INSERT INTO chunks(hash, size, storage_path, ref_count) *)
NewChunkRow(hash, body) ==
    [hash |-> hash, size |-> BodyLen(body), storage_path |-> HexShard(hash),
     ref_count |-> 1]

(* hash is the PRIMARY KEY of chunks (db.py): a second row is refused *)
UniqueViolation(hash) == ChunkRows(hash) # {}

Total(f) == LET RECURSIVE Sum(_)
                Sum(S) == IF S = {} THEN 0
                          ELSE LET x == CHOOSE x \in S : TRUE
                               IN  f[x] + Sum(S \ {x})
            IN  Sum(DOMAIN f)

----------------------------------------------------------------------------
(* Chunk store: POST /api/dev/chunk/{hash}, step by step. Handlers of      *)
(* several server processes interleave between the file write, the SELECT  *)
(* and the INSERT or UPDATE with its commit.                               *)

(* a comparison that accepts every body *)
HashMismatchNever(hash, body) == FALSE

(* calc != hash, calc the sha256 of the body *)
HashMismatch(hash, body) == Sha256(body) # hash

(* lines 820-827: the checks, then write_bytes *)
UploadStart(p, bearer, hash, body) ==
    /\ upc[p] = "idle"
    /\ LET auth == RequireDev(bearer)
       IN  IF auth.status # 200
           THEN /\ resp' = Resp("upload_chunk", auth.status, auth.detail)
                /\ UNCHANGED <<disk, upc, ucall, writes>>
           ELSE IF ~IsSha256(hash)
           THEN /\ resp' = Resp("upload_chunk", 400, "Invalid sha256")
                /\ UNCHANGED <<disk, upc, ucall, writes>>
           ELSE IF HashMismatch(hash, body)
           THEN /\ resp' = Resp("upload_chunk", 400, "Hash mismatch")
                /\ UNCHANGED <<disk, upc, ucall, writes>>
           ELSE /\ Total(writes) < MaxPuts
                /\ disk' = (HexShard(hash) :> [bytes |-> body]) @@ disk
                /\ writes' = [writes EXCEPT ![hash] = @ + 1]
                /\ upc' = [upc EXCEPT ![p] = "select"]
                /\ ucall' = [ucall EXCEPT ![p] = [hash |-> hash, body |-> body]]
                /\ UNCHANGED resp
    /\ UNCHANGED <<chunks, putOk, sessVars, distVars, clientVars>>

(* line 830: SELECT hash FROM chunks WHERE hash = ? *)
UploadSelect(p) ==
    /\ upc[p] = "select"
    /\ upc' = [upc EXCEPT ![p] = IF ChunkRows(ucall[p].hash) # {}
                                 THEN "update" ELSE "insert"]
    /\ UNCHANGED <<chunks, disk, ucall, writes, putOk, sessVars, distVars, clientVars, resp>>

(* lines 832, 838: UPDATE ref_count, commit, answer *)
UploadUpdate(p) ==
    /\ upc[p] = "update"
    /\ chunks' = RefCountBumped(ucall[p].hash)
    /\ putOk' = [putOk EXCEPT ![ucall[p].hash] = @ + 1]
    /\ resp' = Resp("upload_chunk", 200, "")
    /\ upc' = [upc EXCEPT ![p] = "idle"]
    /\ ucall' = [ucall EXCEPT ![p] = NULL]
    /\ UNCHANGED <<disk, writes, sessVars, distVars, clientVars>>

(* lines 834-838: INSERT, commit, answer; the INSERT of a hash that is     *)
(* in the table by now raises sqlite3.IntegrityError, which nothing        *)
(* catches: the answer is 500                                              *)
UploadInsert(p) ==
    /\ upc[p] = "insert"
    /\ IF UniqueViolation(ucall[p].hash)
       THEN /\ resp' = Resp("upload_chunk", 500, "Internal Server Error")
            /\ UNCHANGED <<chunks, putOk>>
       ELSE /\ chunks' = Append(chunks, NewChunkRow(ucall[p].hash, ucall[p].body))
            /\ putOk' = [putOk EXCEPT ![ucall[p].hash] = @ + 1]
            /\ resp' = Resp("upload_chunk", 200, "")
    /\ upc' = [upc EXCEPT ![p] = "idle"]
    /\ ucall' = [ucall EXCEPT ![p] = NULL]
    /\ UNCHANGED <<disk, writes, sessVars, distVars, clientVars>>

----------------------------------------------------------------------------
(* Distribution: helpers of backend/main.py *)

MaxApps == 2
MaxBuilds == 3
MaxSubs == 3

(* the {1,64} of SLUG_RE and COMP_RE *)
NameMax == 64

Lower == {"a", "b", "c", "d", "e", "f", "g", "h", "i", "j", "k", "l", "m",
          "n", "o", "p", "q", "r", "s", "t", "u", "v", "w", "x", "y", "z"}
Upper == {"A", "B", "C", "D", "E", "F", "G", "H", "I", "J", "K", "L", "M",
          "N", "O", "P", "Q", "R", "S", "T", "U", "V", "W", "X", "Y", "Z"}
Digits == {"0", "1", "2", "3", "4", "5", "6", "7", "8", "9"}

(* SLUG_RE.match: ^[a-z0-9-]{1,64}$ *)
IsSlug(slug) ==
    /\ Len(slug) \in 1..NameMax
    /\ \A i \in 1..Len(slug) : slug[i] \in Lower \cup Digits \cup {"-"}

(* COMP_RE.match: ^[A-Za-z0-9._-]{1,64}$ *)
IsComp(value) ==
    /\ Len(value) \in 1..NameMax
    /\ \A i \in 1..Len(value) : value[i] \in Lower \cup Upper \cup Digits \cup {".", "_", "-"}

(* A path is the sequence of its segments between the "/", a segment the   *)
(* sequence of its characters; a fixed name is written as one character.   *)
(* _normalize_manifest_file_path on a path without backslashes or blanks   *)
(* around it: a path that starts with "/" has an empty first segment;      *)
(* PurePosixPath drops the empty segments and the segments "."             *)
PathParts(raw) == SelectSeq(raw, LAMBDA part : part \notin {<<>>, <<".">>})

InvalidFilePath(raw) ==
    \/ raw = <<>>
    \/ raw[1] = <<>>
    \/ PathParts(raw) = <<>>
    \/ \E i \in DOMAIN PathParts(raw) : PathParts(raw)[i] = <<".", ".">>
    \/ ":" \in Range(PathParts(raw)[1])

(* a loop that accepts every list of chunks *)
ChunksUnchecked(chs, expected_offset) == ""

(* the loop over entry.chunks: the detail of the first check that fails *)
RECURSIVE ChunksError(_, _)
ChunksError(chs, expected_offset) ==
    IF chs = <<>> THEN ""
    ELSE IF ~IsSha256(Head(chs).sha256) THEN "Invalid sha256"
    ELSE IF Head(chs).size < 0 THEN "Invalid chunk size"
    ELSE IF Head(chs).offset # expected_offset THEN "Invalid chunk offsets"
    ELSE ChunksError(Tail(chs), expected_offset + Head(chs).size)

(* expected_offset after the loop *)
RECURSIVE ChunksEnd(_)
ChunksEnd(chs) == IF chs = <<>> THEN 0 ELSE Head(chs).size + ChunksEnd(Tail(chs))

RECURSIVE FilesSize(_)
FilesSize(files) == IF files = <<>> THEN 0 ELSE Head(files).size + FilesSize(Tail(files))

(* a validation that accepts every manifest *)
ManifestFilesUnchecked(manifest) == ""

(* _validate_manifest_files: the detail of the first check that fails *)
ManifestFilesError(manifest) ==
    LET fs == manifest.files
        Bad(i) ==
            IF InvalidFilePath(fs[i].path) THEN "Invalid file path"
            ELSE IF \E j \in 1..(i - 1) : PathParts(fs[j].path) = PathParts(fs[i].path)
            THEN "Duplicate file path"
            ELSE IF ~IsSha256(fs[i].sha256) THEN "Invalid sha256"
            ELSE IF ChunksError(fs[i].chunks, 0) # "" THEN ChunksError(fs[i].chunks, 0)
            ELSE IF fs[i].size # ChunksEnd(fs[i].chunks) THEN "File size mismatch"
            ELSE ""
    IN  IF \E i \in DOMAIN fs : Bad(i) # ""
        THEN Bad(CHOOSE i \in DOMAIN fs : Bad(i) # "" /\ \A j \in 1..(i - 1) : Bad(j) = "")
        ELSE IF manifest.total_size # FilesSize(fs) THEN "Manifest total_size mismatch"
        ELSE ""

(* entry.path = normalized_path *)
NormalizedManifest(manifest) ==
    [manifest EXCEPT !.files = [i \in DOMAIN manifest.files |->
        [manifest.files[i] EXCEPT !.path = PathParts(manifest.files[i].path)]]]

(* apps/{app}/builds/{version}/{platform}/{channel}/manifest.json *)
ManifestRel(manifest) ==
    << <<"apps">>, manifest.app, <<"builds">>, manifest.version, manifest.platform,
       manifest.channel, <<"manifest.json">> >>

(* a check that finds a chunk in every manifest *)
ManifestContainsAnyChunk(manifest, sha256) == TRUE

(* _manifest_contains_chunk *)
ManifestContainsChunk(manifest, sha256) ==
    \E i \in DOMAIN manifest.files :
        \E k \in DOMAIN manifest.files[i].chunks :
            manifest.files[i].chunks[k].sha256 = sha256

(* SELECT ... FROM apps WHERE slug = ? / WHERE id = ?: the row or NULL *)
AppBySlug(slug) ==
    IF \E i \in DOMAIN apps : apps[i].slug = slug
    THEN apps[CHOOSE i \in DOMAIN apps : apps[i].slug = slug]
    ELSE NULL

AppById(app_id) == IF app_id \in DOMAIN apps THEN apps[app_id] ELSE NULL

BuildById(build_id) == IF build_id \in DOMAIN builds THEN builds[build_id] ELSE NULL

(* a lookup that takes a purchase of any app *)
HasAnyPurchase(app_id, user_id) ==
    \E pu \in purchases : pu.user_id = user_id

(* SELECT 1 FROM purchases WHERE app_id = ? AND user_id = ? LIMIT 1 *)
HasPurchase(app_id, user_id) ==
    \E pu \in purchases : pu.app_id = app_id /\ pu.user_id = user_id

(* an HTTPException, or no error *)
Fail(status, detail) == [status |-> status, detail |-> detail]

Ok == Fail(200, "")

(* the answer of a distribution endpoint; req is the caller and the        *)
(* parameters of a call to a manifest or storage endpoint                  *)
Answer(op, req, err, body) ==
    [op |-> op, status |-> err.status, detail |-> err.detail, sid |-> NULL,
     body |-> body, req |-> req]

(* _require_app_owner_by_slug, _require_app_owner_by_id, _require_build_owner *)
OwnerError(app_row, user_id) ==
    IF app_row = NULL THEN Fail(404, "App not found")
    ELSE IF app_row.owner_user_id # user_id THEN Fail(403, "Not your app")
    ELSE Ok

(* an owner check that passes whoever the owner of the app is *)
BuildOwnerAny(build_id, user_id) ==
    IF BuildById(build_id) = NULL THEN Fail(404, "Build not found") ELSE Ok

BuildOwnerError(build_id, user_id) ==
    IF BuildById(build_id) = NULL THEN Fail(404, "Build not found")
    ELSE IF AppById(BuildById(build_id).app_id).owner_user_id # user_id
    THEN Fail(403, "Not your app")
    ELSE Ok

(* _require_safe_comp on version, platform, channel, in this order *)
CompsError(version, platform, channel) ==
    IF ~IsComp(version) THEN Fail(400, "Invalid version")
    ELSE IF ~IsComp(platform) THEN Fail(400, "Invalid platform")
    ELSE IF ~IsComp(channel) THEN Fail(400, "Invalid channel")
    ELSE Ok

(* the tables and files the distribution endpoints leave alone *)
distFrame == <<sessVars, chunks, upc, ucall, writes, putOk, clientVars>>

----------------------------------------------------------------------------
(* Distribution: developer API of backend/main.py *)

(* POST /api/dev/apps *)
CreateApp(bearer, slug) ==
    LET auth == RequireDev(bearer)
        err == IF auth.status # 200 THEN Fail(auth.status, auth.detail)
               ELSE IF ~IsSlug(slug) THEN Fail(400, "Invalid slug")
               ELSE IF AppBySlug(slug) # NULL THEN Fail(409, "slug already exists")
               ELSE Ok
    IN  \E e \in {err} :
        /\ IF e.status # 200
           THEN /\ resp' = Answer("create_app", NULL, e, NULL)
                /\ UNCHANGED apps
           ELSE /\ Len(apps) < MaxApps
                /\ apps' = Append(apps, [id |-> Len(apps) + 1, slug |-> slug,
                                         owner_user_id |-> bearer.sub, is_approved |-> 0,
                                         ever_approved |-> FALSE])
                /\ resp' = Answer("create_app", NULL, Ok, [id |-> Len(apps) + 1])
        /\ UNCHANGED <<builds, submissions, purchases, disk, distFrame>>

(* UPDATE apps SET is_approved = ? WHERE slug = ?; ever_approved is no     *)
(* column of apps: it records that is_approved has been set to 1           *)
ApprovalSet(slug, flag) ==
    [i \in DOMAIN apps |->
        IF apps[i].slug = slug
        THEN [apps[i] EXCEPT !.is_approved = flag,
                             !.ever_approved = IF flag = 1 THEN TRUE ELSE @]
        ELSE apps[i]]

(* POST /api/dev/apps/{slug}/unpublish *)
UnpublishApp(bearer, slug) ==
    LET auth == RequireDev(bearer)
        err == IF auth.status # 200 THEN Fail(auth.status, auth.detail)
               ELSE IF ~IsSlug(slug) THEN Fail(400, "Invalid slug")
               ELSE OwnerError(AppBySlug(slug), bearer.sub)
    IN  \E e \in {err} :
        /\ IF e.status # 200
           THEN /\ resp' = Answer("unpublish_app", NULL, e, NULL)
                /\ UNCHANGED apps
           ELSE /\ apps' = ApprovalSet(slug, 0)
                /\ resp' = Answer("unpublish_app", NULL, Ok, [is_approved |-> 0])
        /\ UNCHANGED <<builds, submissions, purchases, disk, distFrame>>

(* POST /api/dev/builds *)
CreateBuild(bearer, app_id, version, platform, channel) ==
    LET auth == RequireDev(bearer)
        err == IF auth.status # 200 THEN Fail(auth.status, auth.detail)
               ELSE IF CompsError(version, platform, channel) # Ok
               THEN CompsError(version, platform, channel)
               ELSE OwnerError(AppById(app_id), bearer.sub)
    IN  \E e \in {err} :
        /\ IF e.status # 200
           THEN /\ resp' = Answer("create_build", NULL, e, NULL)
                /\ UNCHANGED builds
           ELSE /\ Len(builds) < MaxBuilds
                /\ builds' = Append(builds,
                      [id |-> Len(builds) + 1, app_id |-> app_id, version |-> version,
                       platform |-> platform, channel |-> channel, status |-> "draft",
                       manifest_url |-> NULL])
                /\ resp' = Answer("create_build", NULL, Ok, [id |-> Len(builds) + 1])
        /\ UNCHANGED <<apps, submissions, purchases, disk, distFrame>>

(* POST /api/dev/builds/{build_id}/missing-chunks: what the handler       *)
(* answers in the current state                                            *)
MissingChunksAnswer(bearer, build_id, hashes) ==
    LET auth == RequireDev(bearer)
        missing == SelectSeq(hashes, LAMBDA h : ~Exists(HexShard(h)))
        err == IF auth.status # 200 THEN Fail(auth.status, auth.detail)
               ELSE IF BuildOwnerError(build_id, bearer.sub) # Ok
               THEN BuildOwnerError(build_id, bearer.sub)
               ELSE IF \E i \in DOMAIN hashes : ~IsSha256(hashes[i])
               THEN Fail(400, "Invalid sha256")
               ELSE Ok
    IN  Answer("missing_chunks", NULL, err,
               IF err.status = 200 THEN [missing |-> missing] ELSE NULL)

MissingChunks(bearer, build_id, hashes) ==
    /\ resp' = MissingChunksAnswer(bearer, build_id, hashes)
    /\ UNCHANGED <<apps, builds, submissions, purchases, disk, distFrame>>

(* the row of INSERT INTO submissions (..., status) VALUES (..., 'pending') *)
NewSubmission(id, user_id, manifest) ==
    [id |-> id, user_id |-> user_id, app_slug |-> manifest.app,
     version |-> manifest.version, platform |-> manifest.platform,
     channel |-> manifest.channel, manifest_url |-> ManifestRel(manifest),
     status |-> "pending"]

(* UPDATE builds SET status = 'ready', manifest_url = ? WHERE id = ? *)
BuildReady(build_id, manifest_rel) ==
    [i \in DOMAIN builds |->
        IF i = build_id
        THEN [builds[i] EXCEPT !.status = "ready", !.manifest_url = manifest_rel]
        ELSE builds[i]]

(* finalize_build, lines 849-863: the error of the first check that fails *)
FinalizeError(bearer, build_id, manifest) ==
    LET auth == RequireDev(bearer)
    IN  IF auth.status # 200 THEN Fail(auth.status, auth.detail)
        ELSE IF ~IsSlug(manifest.app) THEN Fail(400, "Invalid slug")
        ELSE IF CompsError(manifest.version, manifest.platform, manifest.channel) # Ok
        THEN CompsError(manifest.version, manifest.platform, manifest.channel)
        ELSE IF ManifestFilesError(manifest) # ""
        THEN Fail(400, ManifestFilesError(manifest))
        ELSE IF BuildOwnerError(build_id, bearer.sub) # Ok
        THEN BuildOwnerError(build_id, bearer.sub)
        ELSE IF manifest.app # AppById(BuildById(build_id).app_id).slug
        THEN Fail(400, "Manifest app mismatch")
        ELSE Ok

(* POST /api/dev/builds/{build_id}/finalize *)
FinalizeBuild(bearer, build_id, manifest) ==
    LET manifest_rel == ManifestRel(manifest)
    IN  \E e \in {FinalizeError(bearer, build_id, manifest)} :
        /\ IF e.status # 200
           THEN /\ resp' = Answer("finalize_build", NULL, e, NULL)
                /\ UNCHANGED <<builds, submissions, disk>>
           ELSE /\ Len(submissions) < MaxSubs
                /\ disk' = (manifest_rel :> NormalizedManifest(manifest)) @@ disk
                /\ builds' = BuildReady(build_id, manifest_rel)
                /\ submissions' = Append(submissions,
                      NewSubmission(Len(submissions) + 1, bearer.sub, manifest))
                /\ resp' = Answer("finalize_build", NULL, Ok, [manifest_url |-> manifest_rel])
        /\ UNCHANGED <<apps, purchases, distFrame>>

----------------------------------------------------------------------------
(* Distribution: admin API and purchases *)

(* UPDATE submissions SET status = ? WHERE id = ? *)
SubmissionSet(sid, status) ==
    [i \in DOMAIN submissions |->
        IF i = sid THEN [submissions[i] EXCEPT !.status = status] ELSE submissions[i]]

(* POST /api/admin/submissions/{sid}/approve *)
ApproveSubmission(bearer, sid) ==
    LET auth == RequireAdmin(bearer)
        err == IF auth.status # 200 THEN Fail(auth.status, auth.detail)
               ELSE IF sid \notin DOMAIN submissions THEN Fail(404, "Not found")
               ELSE IF submissions[sid].status # "pending" THEN Fail(400, "Already processed")
               ELSE Ok
    IN  \E e \in {err} :
        /\ resp' = Answer("approve_submission", NULL, e, NULL)
        /\ IF e.status # 200
           THEN UNCHANGED <<apps, submissions>>
           ELSE /\ apps' = ApprovalSet(submissions[sid].app_slug, 1)
                /\ submissions' = SubmissionSet(sid, "approved")
        /\ UNCHANGED <<builds, purchases, disk, distFrame>>

(* POST /api/admin/submissions/{sid}/reject: whatever the status was *)
RejectSubmission(bearer, sid) ==
    LET auth == RequireAdmin(bearer)
        err == IF auth.status # 200 THEN Fail(auth.status, auth.detail)
               ELSE IF sid \notin DOMAIN submissions THEN Fail(404, "Not found")
               ELSE Ok
    IN  \E e \in {err} :
        /\ resp' = Answer("reject_submission", NULL, e, NULL)
        /\ IF e.status # 200
           THEN UNCHANGED submissions
           ELSE submissions' = SubmissionSet(sid, "rejected")
        /\ UNCHANGED <<apps, builds, purchases, disk, distFrame>>

(* GET /api/admin/submissions: the rows, of one status if a status is      *)
(* given, ORDER BY created_at DESC, id DESC                                *)
ListSubmissions(bearer, status) ==
    LET auth == RequireAdmin(bearer)
        rows == SelectSeq(submissions, LAMBDA s : status = "" \/ s.status = status)
        err == IF auth.status # 200 THEN Fail(auth.status, auth.detail) ELSE Ok
    IN  \E e \in {err} :
        /\ resp' = Answer("list_submissions", NULL, e,
                          IF e.status # 200 THEN NULL
                          ELSE [items |-> [i \in DOMAIN rows |-> rows[Len(rows) + 1 - i]]])
        /\ UNCHANGED <<apps, builds, submissions, purchases, disk, distFrame>>

(* a check that takes every app as available *)
AppAvailableAlways(app_row) == TRUE

(* int(app_row["is_approved"] or 0) == 1 *)
AppAvailable(app_row) == app_row.is_approved = 1

(* POST /api/user/purchases/report *)
ReportPurchase(bearer, app_id) ==
    LET auth == Authenticate(bearer)
        err == IF auth.status # 200 THEN Fail(auth.status, auth.detail)
               ELSE IF app_id <= 0 THEN Fail(400, "Invalid app_id")
               ELSE IF AppById(app_id) = NULL THEN Fail(404, "App not found")
               ELSE IF ~AppAvailable(AppById(app_id)) THEN Fail(400, "App not available")
               ELSE Ok
    IN  \E e \in {err} :
        /\ resp' = Answer("report_purchase", NULL, e,
                          IF e.status # 200 THEN NULL
                          ELSE [already_reported |-> HasPurchase(app_id, bearer.sub)])
        /\ IF e.status # 200 \/ HasPurchase(app_id, bearer.sub)
           THEN UNCHANGED purchases
           ELSE purchases' = purchases \cup {[app_id |-> app_id, user_id |-> bearer.sub]}
        /\ UNCHANGED <<apps, builds, submissions, disk, distFrame>>

----------------------------------------------------------------------------
(* Distribution: manifest and storage endpoints *)

(* _require_download_access *)
DownloadAccessError(slug, uid, role) ==
    IF ~IsSlug(slug) THEN Fail(400, "Invalid slug")
    ELSE IF AppBySlug(slug) = NULL THEN Fail(404, "App not found")
    ELSE IF role = "admin" \/ uid = AppBySlug(slug).owner_user_id THEN Ok
    ELSE IF ~HasPurchase(AppBySlug(slug).id, uid) THEN Fail(403, "Purchase required")
    ELSE Ok

(* the rows of builds JOIN apps WHERE a.slug = ? AND b.platform = ? AND    *)
(* b.channel = ? AND b.status = 'ready'                                    *)
ReadyBuilds(slug, platform, channel) ==
    {i \in DOMAIN builds :
        /\ AppById(builds[i].app_id) # NULL
        /\ AppById(builds[i].app_id).slug = slug
        /\ builds[i].platform = platform
        /\ builds[i].channel = channel
        /\ builds[i].status = "ready"}

(* the row an ascending order would take *)
Earliest(ids) == CHOOSE i \in ids : \A j \in ids : i <= j

(* ORDER BY b.id DESC LIMIT 1 *)
Latest(ids) == CHOOSE i \in ids : \A j \in ids : j <= i

(* _load_ready_manifest over _manifest_rel_for_build (a version is given)  *)
(* and _latest_ready_manifest_rel (the version is empty)                   *)
LoadReadyManifest(slug, platform, channel, version) ==
    LET found == IF version # <<>>
                 THEN {i \in ReadyBuilds(slug, platform, channel) : builds[i].version = version}
                 ELSE ReadyBuilds(slug, platform, channel)
        none == [build |-> 0, data |-> NULL, rel |-> NULL]
        err == IF ~IsSlug(slug) THEN Fail(400, "Invalid slug")
               ELSE IF version # <<>> /\ ~IsComp(version) THEN Fail(400, "Invalid version")
               ELSE IF ~IsComp(platform) THEN Fail(400, "Invalid platform")
               ELSE IF ~IsComp(channel) THEN Fail(400, "Invalid channel")
               ELSE IF found = {} \/ builds[Latest(found)].manifest_url = NULL
               THEN Fail(404, IF version # <<>> THEN "No manifest for build" ELSE "No manifest")
               ELSE IF ~Exists(builds[Latest(found)].manifest_url)
               THEN Fail(404, "Manifest missing on disk")
               ELSE Ok
    IN  IF err.status # 200 THEN [err |-> err] @@ none
        ELSE [err |-> Ok, build |-> Latest(found),
              data |-> disk[builds[Latest(found)].manifest_url],
              rel |-> builds[Latest(found)].manifest_url]

(* The caller of a call is req.uid: the user id, 0 if require_user refuses *)
(* the call. The role of the caller is the role of the users row.          *)
CallerRole(bearer) == UserById(bearer.sub).role

(* GET /api/manifest/{slug}/{platform}/{channel} *)
GetManifest(bearer, slug, platform, channel) ==
    LET auth == Authenticate(bearer)
        req == [uid |-> IF auth.status = 200 THEN bearer.sub ELSE 0, slug |-> slug, platform |-> platform,
                channel |-> channel, version |-> <<>>]
        loaded == LoadReadyManifest(slug, platform, channel, <<>>)
        err == IF auth.status # 200 THEN Fail(auth.status, auth.detail)
               ELSE IF DownloadAccessError(slug, bearer.sub, CallerRole(bearer)) # Ok
               THEN DownloadAccessError(slug, bearer.sub, CallerRole(bearer))
               ELSE loaded.err
    IN  \E e \in {err} :
        /\ resp' = Answer("get_manifest", req, e,
                          IF e.status = 200 THEN loaded.data ELSE NULL)
        /\ UNCHANGED <<distVars, disk, distFrame>>

(* GET /storage/chunks/{hash} *)
GetChunk(bearer, hash, slug, version, platform, channel) ==
    LET auth == Authenticate(bearer)
        req == [uid |-> IF auth.status = 200 THEN bearer.sub ELSE 0, slug |-> slug, platform |-> platform,
                channel |-> channel, version |-> version, hash |-> hash]
        loaded == LoadReadyManifest(slug, platform, channel, version)
        err == IF auth.status # 200 THEN Fail(auth.status, auth.detail)
               ELSE IF ~IsSha256(hash) THEN Fail(400, "Invalid sha256")
               ELSE IF DownloadAccessError(slug, bearer.sub, CallerRole(bearer)) # Ok
               THEN DownloadAccessError(slug, bearer.sub, CallerRole(bearer))
               ELSE IF loaded.err # Ok THEN loaded.err
               ELSE IF ~ManifestContainsChunk(loaded.data, hash)
               THEN Fail(404, "Chunk not in manifest")
               ELSE IF ~Exists(HexShard(hash)) THEN Fail(404, "Chunk not found")
               ELSE Ok
    IN  \E e \in {err} :
        /\ resp' = Answer("get_chunk", req, e,
                          IF e.status = 200 THEN disk[HexShard(hash)] ELSE NULL)
        /\ UNCHANGED <<distVars, disk, distFrame>>

(* GET /storage/apps/{path}: path is below storage/apps, the manifest_url  *)
(* of a build below storage                                                *)
GetStorageFile(bearer, path, slug, version, platform, channel) ==
    LET auth == Authenticate(bearer)
        req == [uid |-> IF auth.status = 200 THEN bearer.sub ELSE 0, slug |-> slug, platform |-> platform,
                channel |-> channel, version |-> version, path |-> path]
        loaded == LoadReadyManifest(slug, platform, channel, version)
        err == IF auth.status # 200 THEN Fail(auth.status, auth.detail)
               ELSE IF DownloadAccessError(slug, bearer.sub, CallerRole(bearer)) # Ok
               THEN DownloadAccessError(slug, bearer.sub, CallerRole(bearer))
               ELSE IF loaded.err # Ok THEN loaded.err
               ELSE IF InvalidFilePath(path) THEN Fail(400, "Invalid file path")
               ELSE IF PathParts(path) # Tail(loaded.rel) THEN Fail(403, "File not allowed")
               ELSE IF ~Exists(<< <<"apps">> >> \o PathParts(path)) THEN Fail(404, "File not found")
               ELSE Ok
    IN  \E e \in {err} :
        /\ resp' = Answer("get_storage_file", req, e,
                          IF e.status = 200 THEN disk[<< <<"apps">> >> \o PathParts(path)]
                          ELSE NULL)
        /\ UNCHANGED <<distVars, disk, distFrame>>

----------------------------------------------------------------------------
(* Clients: text, bytes and paths                                          *)
(* A str is the sequence of its characters, bytes the sequence of its      *)
(* values, a filesystem path the sequence of its names from "/".           *)

Whitespace == {" "}

RECURSIVE LStrip(_)
LStrip(s) == IF s # <<>> /\ Head(s) \in Whitespace THEN LStrip(Tail(s)) ELSE s

Reverse(s) == [i \in 1..Len(s) |-> s[Len(s) + 1 - i]]

(* str.strip() *)
Strip(s) == Reverse(LStrip(Reverse(LStrip(s))))

(* str.replace("\\", "/") *)
Slashed(s) == [i \in 1..Len(s) |-> IF s[i] = "\\" THEN "/" ELSE s[i]]

(* str.split("/") *)
RECURSIVE Split(_)
Split(s) ==
    IF "/" \notin Range(s) THEN <<s>>
    ELSE LET k == CHOOSE k \in 1..Len(s) : s[k] = "/" /\ \A j \in 1..(k - 1) : s[j] # "/"
         IN  <<SubSeq(s, 1, k - 1)>> \o Split(SubSeq(s, k + 1, Len(s)))

(* "/".join(parts), PurePath.as_posix() of a relative path *)
RECURSIVE Join(_)
Join(parts) ==
    IF parts = <<>> THEN <<>>
    ELSE IF Len(parts) = 1 THEN parts[1]
    ELSE parts[1] \o <<"/">> \o Join(Tail(parts))

(* CHUNK_SIZE is 8 MB; the model cuts a file every CHUNK_SIZE bytes *)
CHUNK_SIZE == 2

HexOf(n) == <<"0", "1", "2", "3", "4", "5", "6", "7", "8", "9",
              "a", "b", "c", "d", "e", "f">>[n + 1]

RECURSIVE BinValue(_)
BinValue(b) == IF b = <<>> THEN 0 ELSE Head(b) + 2 * BinValue(Tail(b))

(* hashlib.sha256(b).hexdigest() of bytes of the values 0 and 1: the       *)
(* length and the values make the digest, so that no two byte strings of   *)
(* the model share one                                                     *)
sha256_bytes(b) ==
    <<HexOf(Len(b)), HexOf(BinValue(b) % 16), HexOf((BinValue(b) \div 16) % 16), "e">>

(* chunk_file: f.read(CHUNK_SIZE) until nothing is left *)
RECURSIVE chunk_file(_, _)
chunk_file(data, off) ==
    IF data = <<>> THEN <<>>
    ELSE LET n == IF Len(data) < CHUNK_SIZE THEN Len(data) ELSE CHUNK_SIZE
         IN  <<[offset |-> off, bytes |-> SubSeq(data, 1, n)]>>
                 \o chunk_file(SubSeq(data, n + 1, Len(data)), off + n)

(* one entry of files in build_manifest: fp is a file of the folder *)
FileEntry(fp) ==
    [path |-> Join(fp.path), size |-> Len(fp.bytes), sha256 |-> sha256_bytes(fp.bytes),
     chunks |-> [k \in DOMAIN chunk_file(fp.bytes, 0) |->
                    [offset |-> chunk_file(fp.bytes, 0)[k].offset,
                     size |-> Len(chunk_file(fp.bytes, 0)[k].bytes),
                     sha256 |-> sha256_bytes(chunk_file(fp.bytes, 0)[k].bytes)]]]

RECURSIVE TotalSize(_)
TotalSize(root) == IF root = <<>> THEN 0 ELSE Len(Head(root).bytes) + TotalSize(Tail(root))

(* build_manifest; root is the list of the files root.rglob("*") finds *)
build_manifest(root, app_slug, version, platform, channel) ==
    [app |-> app_slug, version |-> version, platform |-> platform, channel |-> channel,
     total_size |-> TotalSize(root),
     files |-> [i \in DOMAIN root |-> FileEntry(root[i])],
     chunk_base |-> "chunks", signature |-> NULL]

(* the chunks of every file of the folder, in the order of the upload loop *)
RECURSIVE FolderChunks(_)
FolderChunks(root) ==
    IF root = <<>> THEN <<>>
    ELSE chunk_file(Head(root).bytes, 0) \o FolderChunks(Tail(root))

(* all_hashes of upload_folder, chunk_hashes of install_from_manifest:     *)
(* [c["sha256"] for f in files for c in f["chunks"]]                       *)
RECURSIVE all_hashes(_)
all_hashes(files) ==
    IF files = <<>> THEN <<>>
    ELSE [k \in DOMAIN Head(files).chunks |-> Head(files).chunks[k].sha256]
             \o all_hashes(Tail(files))

(* The manifest of a request or an answer carries its file paths as str;   *)
(* line 389 of _normalize_manifest_file_path cuts such a path into the     *)
(* segments InvalidFilePath and PathParts work on.                         *)
Segments(path) == Split(Slashed(Strip(path)))

(* the manifest the server validates, of the JSON body of a request *)
ParsedManifest(body) ==
    [body EXCEPT !.files = [i \in DOMAIN body.files |->
        [body.files[i] EXCEPT !.path = Segments(body.files[i].path)]]]

(* the JSON of a manifest file: "/".join(parts) is the path of an entry *)
ManifestJson(manifest) ==
    [manifest EXCEPT !.files = [i \in DOMAIN manifest.files |->
        [manifest.files[i] EXCEPT !.path = Join(manifest.files[i].path)]]]

----------------------------------------------------------------------------
(* Publisher client: upload_folder of services/uploader_client.py. A step  *)
(* of the client is a call to the backend with the whole handler of the    *)
(* call; no other client calls the backend in between. writes and putOk    *)
(* count the handlers of SpecStore only.                                   *)

UploadIdle ==
    [pc |-> "idle", manifest |-> NULL, build_id |-> 0, asked |-> <<>>, missing |-> {},
     todo |-> <<>>, error |-> ""]

(* raise_for_status: the HTTPError ends upload_folder *)
UploadFailed(detail) == [up EXCEPT !.pc = "failed", !.error = detail]

(* _find_app_id over GET /api/dev/my-apps: the apps of the caller *)
MyApps(user_id, slug) ==
    {i \in DOMAIN apps : apps[i].owner_user_id = user_id /\ apps[i].slug = slug}

(* lines 185-191: build_manifest, ensure_app, create_build *)
UploadBegin(bearer, slug, version, platform, channel) ==
    LET auth == RequireDev(bearer)
        manifest == build_manifest(folder, slug, version, platform, channel)
        app_err == IF auth.status # 200 THEN Fail(auth.status, auth.detail)
                   ELSE IF MyApps(bearer.sub, slug) # {} THEN Ok
                   ELSE IF ~IsSlug(slug) THEN Fail(400, "Invalid slug")
                   ELSE IF AppBySlug(slug) # NULL THEN Fail(409, "slug already exists")
                   ELSE Ok
        created == app_err = Ok /\ MyApps(bearer.sub, slug) = {}
        app_id == IF created THEN Len(apps) + 1
                  ELSE CHOOSE i \in MyApps(bearer.sub, slug) : TRUE
        build_err == IF app_err # Ok THEN app_err
                     ELSE CompsError(version, platform, channel)
    IN  /\ up.pc = "idle"
        /\ created => Len(apps) < MaxApps
        /\ Len(builds) < MaxBuilds
        /\ apps' = IF created
                   THEN Append(apps, [id |-> app_id, slug |-> slug,
                                      owner_user_id |-> bearer.sub, is_approved |-> 0,
                                      ever_approved |-> FALSE])
                   ELSE apps
        /\ IF build_err # Ok
           THEN /\ up' = [UploadFailed(build_err.detail) EXCEPT !.manifest = manifest]
                /\ resp' = Answer(IF app_err # Ok THEN "create_app" ELSE "create_build",
                                  NULL, build_err, NULL)
                /\ UNCHANGED builds
           ELSE /\ builds' = Append(builds,
                      [id |-> Len(builds) + 1, app_id |-> app_id, version |-> version,
                       platform |-> platform, channel |-> channel, status |-> "draft",
                       manifest_url |-> NULL])
                /\ up' = [up EXCEPT !.pc = "missing", !.manifest = manifest,
                                    !.build_id = Len(builds) + 1]
                /\ resp' = Answer("create_build", NULL, Ok, [id |-> Len(builds) + 1])
        /\ UNCHANGED <<sessVars, storeVars, submissions, purchases, folder, inst, fsys>>

(* lines 194-199: get_missing with the hashes of the manifest, one per     *)
(* chunk; the handler is missing_chunks                                    *)
UploadMissing(bearer) ==
    LET auth == RequireDev(bearer)
        hashes == all_hashes(up.manifest.files)
        err == IF auth.status # 200 THEN Fail(auth.status, auth.detail)
               ELSE IF BuildOwnerError(up.build_id, bearer.sub) # Ok
               THEN BuildOwnerError(up.build_id, bearer.sub)
               ELSE IF \E i \in DOMAIN hashes : ~IsSha256(hashes[i])
               THEN Fail(400, "Invalid sha256")
               ELSE Ok
        missing == SelectSeq(hashes, LAMBDA h : ~Exists(HexShard(h)))
    IN  /\ up.pc = "missing"
        /\ resp' = Answer("missing_chunks", NULL, err,
                          IF err = Ok THEN [missing |-> missing] ELSE NULL)
        /\ up' = IF err # Ok THEN UploadFailed(err.detail)
                 ELSE [up EXCEPT !.pc = "upload", !.asked = hashes,
                                 !.missing = Range(missing),
                                 !.todo = FolderChunks(folder)]
        /\ UNCHANGED <<sessVars, storeVars, distVars, folder, inst, fsys>>

(* the chunks table after upload_chunk has stored bytes under hash *)
ChunkStored(hash, body) ==
    IF ChunkRows(hash) # {} THEN RefCountBumped(hash)
    ELSE Append(chunks, [hash |-> hash, size |-> Len(body),
                         storage_path |-> HexShard(hash), ref_count |-> 1])

(* lines 207-213, one chunk of the loop: upload_chunk if the hash is in    *)
(* missing, which no upload changes; the handler is upload_chunk           *)
UploadNext(bearer) ==
    LET b == Head(up.todo).bytes
        h == sha256_bytes(b)
        auth == RequireDev(bearer)
        err == IF auth.status # 200 THEN Fail(auth.status, auth.detail)
               ELSE IF ~IsSha256(h) THEN Fail(400, "Invalid sha256")
               ELSE IF sha256_bytes(b) # h THEN Fail(400, "Hash mismatch")
               ELSE Ok
    IN  /\ up.pc = "upload"
        /\ up.todo # <<>>
        /\ IF h \notin up.missing
           THEN /\ up' = [up EXCEPT !.todo = Tail(@)]
                /\ UNCHANGED <<chunks, disk, resp>>
           ELSE /\ resp' = Answer("upload_chunk", NULL, err, NULL)
                /\ IF err # Ok
                   THEN /\ up' = UploadFailed(err.detail)
                        /\ UNCHANGED <<chunks, disk>>
                   ELSE /\ disk' = (HexShard(h) :> [bytes |-> b]) @@ disk
                        /\ chunks' = ChunkStored(h, b)
                        /\ up' = [up EXCEPT !.todo = Tail(@)]
        /\ UNCHANGED <<sessVars, upc, ucall, writes, putOk, distVars, folder, inst, fsys>>

(* lines 215-226: finalize_build with the fields of the manifest; the      *)
(* handler is finalize_build                                               *)
UploadFinalize(bearer) ==
    LET auth == RequireDev(bearer)
        manifest == ParsedManifest(up.manifest)
        err == IF auth.status # 200 THEN Fail(auth.status, auth.detail)
               ELSE IF ~IsSlug(manifest.app) THEN Fail(400, "Invalid slug")
               ELSE IF CompsError(manifest.version, manifest.platform, manifest.channel) # Ok
               THEN CompsError(manifest.version, manifest.platform, manifest.channel)
               ELSE IF ManifestFilesError(manifest) # ""
               THEN Fail(400, ManifestFilesError(manifest))
               ELSE IF BuildOwnerError(up.build_id, bearer.sub) # Ok
               THEN BuildOwnerError(up.build_id, bearer.sub)
               ELSE IF manifest.app # AppById(BuildById(up.build_id).app_id).slug
               THEN Fail(400, "Manifest app mismatch")
               ELSE Ok
        manifest_rel == ManifestRel(manifest)
    IN  /\ up.pc = "upload"
        /\ up.todo = <<>>
        /\ IF err # Ok
           THEN /\ resp' = Answer("finalize_build", NULL, err, NULL)
                /\ up' = UploadFailed(err.detail)
                /\ UNCHANGED <<builds, submissions, disk>>
           ELSE /\ Len(submissions) < MaxSubs
                /\ disk' = (manifest_rel :> NormalizedManifest(manifest)) @@ disk
                /\ builds' = BuildReady(up.build_id, manifest_rel)
                /\ submissions' = Append(submissions,
                      NewSubmission(Len(submissions) + 1, bearer.sub, manifest))
                /\ resp' = Answer("finalize_build", NULL, Ok, [manifest_url |-> manifest_rel])
                /\ up' = [up EXCEPT !.pc = "done"]
        /\ UNCHANGED <<sessVars, chunks, upc, ucall, writes, putOk, apps, purchases,
                       folder, inst, fsys>>

(* the developer changes the files of the folder and runs upload_folder    *)
(* again                                                                   *)
EditFolder(root) ==
    /\ up.pc \in {"done", "failed"}
    /\ folder' = root
    /\ up' = UploadIdle
    /\ UNCHANGED <<sessVars, storeVars, distVars, resp, inst, fsys>>

----------------------------------------------------------------------------
(* Player client: distribution_client/downloader.py. fsys holds a          *)
(* directory as [kind |-> "dir"], a file as [kind |-> "file", bytes |-> b] *)
(* and a symbolic link as [kind |-> "link", target |-> path].              *)

(* install_dir of InstallWorker, and a directory that is not below it *)
InstallDir == << <<"games">>, <<"x">> >>

Elsewhere == << <<"home">> >>

(* Path.resolve(): a link on the way is replaced by its target *)
RECURSIVE Resolve(_, _)
Resolve(done, rest) ==
    IF rest = <<>> THEN done
    ELSE LET p == Append(done, Head(rest))
         IN  IF p \in DOMAIN fsys /\ fsys[p].kind = "link"
             THEN Resolve(fsys[p].target, Tail(rest))
             ELSE Resolve(p, Tail(rest))

(* a check that takes every path as one below base *)
IsRelativeToAny(target, base) == TRUE

(* PurePath.is_relative_to *)
IsRelativeTo(target, base) ==
    /\ Len(target) >= Len(base)
    /\ SubSeq(target, 1, Len(base)) = base

(* _safe_output_path: the error raised, or the resolved target *)
SafeOutputPath(base, rel_path) ==
    LET raw == Slashed(Strip(rel_path))
        parts == SelectSeq(Split(raw), LAMBDA part : part # <<>>)
        target == Resolve(<<>>, base \o parts)
    IN  IF raw = <<>> \/ raw[1] = "/"
        THEN [err |-> "Invalid path in manifest", target |-> NULL]
        ELSE IF parts = <<>> \/ \E i \in DOMAIN parts : parts[i] \in {<<".">>, <<".", ".">>}
        THEN [err |-> "Invalid path in manifest", target |-> NULL]
        ELSE IF ~IsRelativeTo(target, Resolve(<<>>, base))
        THEN [err |-> "Path escapes install root", target |-> NULL]
        ELSE [err |-> "", target |-> target]

(* the directories above path, the nearest last *)
Parents(path) == [k \in 1..(Len(path) - 1) |-> SubSeq(path, 1, k)]

(* out.parent.mkdir(parents=True, exist_ok=True) or out.open("wb") raises: *)
(* a name above out is a file, or out is a directory                       *)
OpenError(out) ==
    \/ \E k \in DOMAIN Parents(out) :
          Parents(out)[k] \in DOMAIN fsys /\ fsys[Parents(out)[k]].kind = "file"
    \/ out \in DOMAIN fsys /\ fsys[out].kind # "file"

(* the filesystem after mkdir(parents=True, exist_ok=True) of the          *)
(* directory path and all above it                                         *)
MadeDirs(path) ==
    [p \in {SubSeq(path, 1, k) : k \in 1..Len(path)} \ DOMAIN fsys |-> [kind |-> "dir"]] @@ fsys

(* dst.write(data_map[c["sha256"]]) for c in f["chunks"] *)
RECURSIVE Assembled(_, _)
Assembled(chs, data_map) ==
    IF chs = <<>> THEN <<>>
    ELSE data_map[Head(chs).sha256] \o Assembled(Tail(chs), data_map)

(* what the player client leaves alone; resp keeps the last answer to the   *)
(* publisher                                                               *)
installFrame == <<sessVars, storeVars, distVars, resp, folder, up>>

(* running: the chunks a thread of the pool is fetching *)
InstallIdle ==
    [pc |-> "idle", man |-> NULL, pending |-> {}, data_map |-> <<>>, next |-> 1,
     written |-> {}, error |-> "", running |-> {}]

InstallFailed(detail) == [inst EXCEPT !.pc = "failed", !.error = detail]

(* lines 59-70: mkdir of the install directory, the checks of app and      *)
(* version; one _download_chunk is submitted per chunk of the manifest     *)
InstallBegin(man) ==
    /\ inst.pc \in {"idle", "done", "failed"}
    /\ fsys' = MadeDirs(InstallDir)
    /\ inst' = IF man.app = <<>>
               THEN [InstallIdle EXCEPT !.pc = "failed", !.man = man,
                                        !.error = "Manifest app slug missing"]
               ELSE IF man.version = <<>>
               THEN [InstallIdle EXCEPT !.pc = "failed", !.man = man,
                                        !.error = "Manifest version missing"]
               ELSE [InstallIdle EXCEPT !.pc = "chunks", !.man = man,
                                        !.pending = DOMAIN all_hashes(man.files)]
    /\ UNCHANGED installFrame

(* a check that trusts every chunk *)
ChunkCorruptNever(h, data) == FALSE

(* hashlib.sha256(data).hexdigest() != h *)
ChunkCorrupt(h, data) == sha256_bytes(data) # h

(* _download_chunk of the k-th chunk and data_map[h] = fut.result(): r is  *)
(* the answer of GET /storage/chunks/{h} as it arrives                     *)
DownloadChunk(k, r) ==
    LET h == all_hashes(inst.man.files)[k]
    IN  /\ inst.pc = "chunks"
        /\ k \in inst.pending
        /\ inst' = IF r.status # 200 THEN InstallFailed("HTTPError")
                   ELSE IF ChunkCorrupt(h, r.content) THEN InstallFailed("Chunk hash mismatch")
                   ELSE [inst EXCEPT !.pending = @ \ {k},
                                     !.data_map = (h :> r.content) @@ @]
        /\ UNCHANGED <<fsys, installFrame>>

(* a check that trusts every assembled file *)
FileCorruptNever(f, data) == FALSE

(* hashlib.sha256(check.read()).hexdigest() != f["sha256"] *)
FileCorrupt(f, data) == sha256_bytes(data) # f.sha256

(* lines 82-90, one file of the loop *)
AssembleFile ==
    LET f == inst.man.files[inst.next]
        out == SafeOutputPath(InstallDir, f.path)
        data == Assembled(f.chunks, inst.data_map)
    IN  /\ inst.pc = "chunks"
        /\ inst.pending = {}
        /\ inst.next \in DOMAIN inst.man.files
        /\ IF out.err # ""
           THEN /\ inst' = InstallFailed(out.err)
                /\ UNCHANGED fsys
           ELSE IF OpenError(out.target)
           THEN /\ inst' = InstallFailed("OSError")
                /\ UNCHANGED fsys
           ELSE /\ fsys' = (out.target :> [kind |-> "file", bytes |-> data])
                              @@ MadeDirs(SubSeq(out.target, 1, Len(out.target) - 1))
                /\ inst' = IF FileCorrupt(f, data)
                           THEN [InstallFailed("Hash mismatch") EXCEPT
                                    !.written = @ \cup {out.target}]
                           ELSE [inst EXCEPT !.next = @ + 1,
                                             !.written = @ \cup {out.target}]
        /\ UNCHANGED installFrame

(* line 91: return True *)
InstallDone ==
    /\ inst.pc = "chunks"
    /\ inst.pending = {}
    /\ inst.next \notin DOMAIN inst.man.files
    /\ inst' = [inst EXCEPT !.pc = "done"]
    /\ UNCHANGED <<fsys, installFrame>>

(* the answer of GET /storage/chunks/{hash}: get_chunk *)
ChunkResponse(bearer, hash, slug, version, platform, channel) ==
    LET auth == Authenticate(bearer)
        loaded == LoadReadyManifest(slug, platform, channel, version)
        err == IF auth.status # 200 THEN Fail(auth.status, auth.detail)
               ELSE IF ~IsSha256(hash) THEN Fail(400, "Invalid sha256")
               ELSE IF DownloadAccessError(slug, bearer.sub, CallerRole(bearer)) # Ok
               THEN DownloadAccessError(slug, bearer.sub, CallerRole(bearer))
               ELSE IF loaded.err # Ok THEN loaded.err
               ELSE IF ~ManifestContainsChunk(loaded.data, hash)
               THEN Fail(404, "Chunk not in manifest")
               ELSE IF ~Exists(HexShard(hash)) THEN Fail(404, "Chunk not found")
               ELSE Ok
    IN  [status |-> err.status,
         content |-> IF err = Ok THEN disk[HexShard(hash)].bytes ELSE <<>>]

(* _download_chunk of the k-th chunk against the backend *)
FetchChunk(bearer, k) ==
    /\ inst.pc = "chunks"
    /\ k \in inst.pending
    /\ DownloadChunk(k, ChunkResponse(bearer, all_hashes(inst.man.files)[k], inst.man.app,
                                      inst.man.version, inst.man.platform, inst.man.channel))

(* InstallWorker.run: get_manifest, then install_from_manifest; an         *)
(* exception of get_manifest ends the run with finished(False, ...)        *)
InstallRun(bearer, slug, platform, channel) ==
    LET auth == Authenticate(bearer)
        loaded == LoadReadyManifest(slug, platform, channel, <<>>)
        err == IF auth.status # 200 THEN Fail(auth.status, auth.detail)
               ELSE IF DownloadAccessError(slug, bearer.sub, CallerRole(bearer)) # Ok
               THEN DownloadAccessError(slug, bearer.sub, CallerRole(bearer))
               ELSE loaded.err
    IN  IF err # Ok
        THEN /\ inst.pc \in {"idle", "done", "failed"}
             /\ inst' = [InstallIdle EXCEPT !.pc = "failed", !.error = "HTTPError"]
             /\ UNCHANGED <<fsys, installFrame>>
        ELSE InstallBegin(ManifestJson(loaded.data))

(* no client has run *)
ClientIdle ==
    /\ folder = <<>>
    /\ up = UploadIdle
    /\ inst = InstallIdle
    /\ fsys = <<>>

----------------------------------------------------------------------------
(* Initial states *)

(* the chunk store and the catalogue after ensure_schema() on an empty      *)
(* database and an empty storage directory                                 *)
StoreEmpty ==
    /\ chunks = <<>>
    /\ disk = <<>>
    /\ upc = [p \in UploadProcs |-> "idle"]
    /\ ucall = [p \in UploadProcs |-> NULL]
    /\ writes = [h \in ChunkHashes |-> 0]
    /\ putOk = [h \in ChunkHashes |-> 0]

DistEmpty ==
    /\ apps = <<>>
    /\ builds = <<>>
    /\ submissions = <<>>
    /\ purchases = {}

(* The accounts after user i registered with password pw1 from device      *)
(* devs[i] at time 0 (create_user, issue_tokens) and bootstrap-admin or    *)
(* upgrade/dev then gave the role roles[i]; neither revokes a session.     *)
Registered(roles, devs) ==
    /\ now = 0
    /\ users = [i \in DOMAIN roles |->
                   [email |-> EmailOf[i], role |-> roles[i],
                    password_hash |-> HashPassword("pw1"),
                    temp_password_hash |-> NULL, force_password_reset |-> 0]]
    /\ sessions = [i \in DOMAIN roles |-> NewSessionRow(<<i>>, i, devs[i], <<i>>)]
    /\ nextSecret = Len(roles) + 1
    /\ refreshTokens = {BuildRefreshToken(<<i>>, <<i>>) : i \in DOMAIN roles}
    /\ accessTokens = {IssueAccessToken([id |-> i, role |-> "user"], <<i>>, devs[i]) :
                          i \in DOMAIN roles}
    /\ rpc = [p \in RefreshProcs |-> "idle"]
    /\ rcall = [p \in RefreshProcs |-> IdleCall]
    /\ okCount = <<>>

(* one account, promoted to admin, its session not bound to a device *)
InitAuth ==
    /\ Registered(<<"admin">>, <<NoDevice>>)
    /\ StoreEmpty
    /\ DistEmpty
    /\ ClientIdle
    /\ resp = NoResp

----------------------------------------------------------------------------
(* Session security: the next-state relations *)

AuthStep(procs, devices) ==
    \/ \E e \in {"e1", "e2"}, pw \in Passwords, d \in devices : AuthLogin(e, pw, d)
    \/ \E p \in procs, t \in RefreshInputs, d \in devices : RefreshStart(p, t, d)
    \/ \E p \in procs : RefreshRevoke(p)
    \/ \E p \in procs : RefreshRotate(p)
    \/ \E in \in LogoutInputs : AuthLogout(in[1], in[2])
    \/ \E b \in BearerInputs, u \in 1..(Len(users) + 1), r \in {"dev", "admin", "root"} :
          AdminSetRole(b, u, r)
    \/ \E b \in BearerInputs : Authorize(b)
    \/ Tick

(* The auth API with one refresh_tokens handler at a time *)
NextAuth == AuthStep({"r1"}, {NoDevice})

SpecAuth == InitAuth /\ [][NextAuth]_vars

(* Two refresh_tokens handlers at a time (threads of the pool, or server     *)
(* processes), on an account whose session may be bound to a device        *)
InitRace ==
    /\ \E d \in {"devA", NoDevice} : Registered(<<"user">>, <<d>>)
    /\ StoreEmpty
    /\ DistEmpty
    /\ ClientIdle
    /\ resp = NoResp

NextRace ==
    \/ \E p \in RefreshProcs, t \in RefreshInputs, d \in DeviceInputs : RefreshStart(p, t, d)
    \/ \E p \in RefreshProcs : RefreshRevoke(p)
    \/ \E p \in RefreshProcs : RefreshRotate(p)
    \/ \E b \in BearerInputs : Authorize(b)
    \/ \E in \in LogoutInputs : AuthLogout(in[1], in[2])
    \/ Tick

SpecRace == InitRace /\ [][NextRace]_vars

----------------------------------------------------------------------------
(* Session security: properties *)

RevokedIn(rows, session_id) ==
    \E i \in DOMAIN rows : rows[i].id = session_id /\ rows[i].revoked_at # NULL

(* the steps that can be the start of a refresh_tokens call of handler p:  *)
(* it was idle, the clock and the tables stay, and it answers 401 or moves *)
(* on                                                                      *)
StartsRefresh(p) ==
    /\ rpc[p] = "idle"
    /\ now' = now
    /\ sessions' = sessions
    /\ rpc'[p] # "idle" \/ (rpc' = rpc /\ resp'.op = "refresh" /\ resp'.status = 401)

(* handler p passed the checks of refresh_tokens, lines 229-243 *)
PassesChecks(p) == rpc[p] = "idle" /\ rpc'[p] # "idle"

(* C1, as amended. A refresh_tokens call that presents a rotated-away       *)
(* refresh token never goes on to rotate; when the session is neither      *)
(* revoked nor expired and the device check passes, the call revokes the   *)
(* session and answers 401; and no call passes the checks on a revoked     *)
(* session, with the newest token or any other.                            *)
C1_ReuseRevokes ==
    [][\A p \in RefreshProcs :
          /\ \A t \in refreshTokens, d \in DeviceInputs :
                (StartsRefresh(p) /\ RefreshStart(p, t, d)) =>
                    LET facts == CallFacts(t, d)
                    IN  /\ "stale" \in facts => rpc'[p] # "rotate"
                        /\ ("stale" \in facts
                              /\ facts \cap {"revoked", "expired", "device"} = {})
                              => rpc'[p] = "revoke"
          /\ PassesChecks(p) => ~RevokedIn(sessions, rcall'[p].sid)
          /\ (rpc[p] = "revoke" /\ rpc'[p] = "idle") =>
                /\ RevokedIn(sessions', rcall[p].sid)
                /\ resp'.status = 401
      ]_vars

(* a token was rotated away by a successful call, a later call presented   *)
(* it, was refused with "Refresh reuse detected", and the session is revoked *)
C1_Witness ==
    /\ resp.op = "refresh"
    /\ resp.status = 401
    /\ resp.detail = "Refresh reuse detected"
    /\ BuildRefreshToken(resp.sid, resp.body.presented) \in DOMAIN okCount
    /\ RevokedIn(sessions, resp.sid)

(* C1, as stated: every call that presents a rotated-away token leaves the  *)
(* session revoked.                                                        *)
C1_AsStated ==
    [][\A p \in RefreshProcs, t \in refreshTokens, d \in DeviceInputs :
          (StartsRefresh(p) /\ RefreshStart(p, t, d) /\ "stale" \in CallFacts(t, d))
              => (rpc'[p] = "revoke" \/ RevokedIn(sessions', SidOf(t)))
      ]_vars

(* C2, as stated: of the refresh_tokens calls that present one refresh     *)
(* token, at most one returns new tokens.                                  *)
C2_AtMostOneReturns == \A t \in DOMAIN okCount : okCount[t] <= 1

(* C3. Authorize answers 200 only while the session named by the sid claim *)
(* exists, is not revoked and is not expired; a token with a valid         *)
(* signature and exp is answered 401 when its session is revoked.          *)
C3_AuthorizeNeedsLiveSession ==
    [][resp'.op = "authorize" =>
          \A b \in BearerInputs :
              Authorize(b) =>
                  /\ resp'.status = 200 =>
                        \E i \in DOMAIN sessions :
                            /\ sessions[i].id = b.sid
                            /\ sessions[i].revoked_at = NULL
                            /\ now < sessions[i].refresh_expires_at[1]
                  /\ (b.sig = "valid" /\ now < b.exp /\ RevokedIn(sessions, b.sid))
                        => resp'.status = 401
      ]_vars

(* a token that decodes was refused because its session is revoked *)
C3_Witness ==
    /\ resp.op = "authorize"
    /\ resp.status = 401
    /\ resp.detail = "Invalid session"
    /\ RevokedIn(sessions, resp.sid)

(* C4. A revoked session stays in the table and stays revoked whatever is  *)
(* called; Authorize answers 401 for a token of a revoked session; and no  *)
(* refresh_tokens call passes its checks on a revoked session, so each     *)
(* answers 401.                                                            *)
C4_RevocationTerminal ==
    [][/\ \A i \in DOMAIN sessions :
            sessions[i].revoked_at # NULL =>
                /\ i \in DOMAIN sessions'
                /\ sessions'[i].id = sessions[i].id
                /\ sessions'[i].revoked_at # NULL
       /\ resp'.op = "authorize" =>
            \A b \in BearerInputs :
                (Authorize(b) /\ RevokedIn(sessions, b.sid)) => resp'.status = 401
       /\ \A p \in RefreshProcs :
            /\ PassesChecks(p) => ~RevokedIn(sessions, rcall'[p].sid)
            /\ (StartsRefresh(p) /\ rpc'[p] = "idle" /\ RevokedIn(sessions, resp'.sid))
                  => resp'.detail = "Invalid refresh token"
      ]_vars

(* after a session was revoked the account logged in again, and a          *)
(* refresh_tokens call for the revoked session was refused                 *)
C4_Witness ==
    /\ resp.op = "refresh"
    /\ resp.status = 401
    /\ resp.detail = "Invalid refresh token"
    /\ RevokedIn(sessions, resp.sid)
    /\ \E i \in DOMAIN sessions : sessions[i].revoked_at = NULL

----------------------------------------------------------------------------
(* Chunk store: specification and properties *)

(* a developer and a plain user are registered; nothing is stored *)
InitStore ==
    /\ Registered(<<"dev", "user">>, <<NoDevice, NoDevice>>)
    /\ StoreEmpty
    /\ DistEmpty
    /\ ClientIdle
    /\ resp = NoResp

(* a digest with a character that is no hex digit, and a short one *)
BadHashes == {<<"g", "1", "0", "f">>, <<"a", "1">>}

StoreBearers == accessTokens \cup {NULL}

NextStore ==
    \/ \E p \in UploadProcs, b \in StoreBearers, body \in {"x", "y"},
          h \in {Sha256("x"), Sha256("y")} \cup BadHashes : UploadStart(p, b, h, body)
    \/ \E p \in UploadProcs : UploadSelect(p)
    \/ \E p \in UploadProcs : UploadUpdate(p)
    \/ \E p \in UploadProcs : UploadInsert(p)

SpecStore == InitStore /\ [][NextStore]_vars

(* C8. For every hash: no row in chunks before the first upload_chunk call *)
(* for it answered 200, and from then on exactly one row, whose ref_count  *)
(* is the number of calls for it that answered 200.                        *)
C8_DedupInvariant ==
    /\ \A i \in DOMAIN chunks : chunks[i].hash \in ChunkHashes
    /\ \A h \in ChunkHashes :
          IF putOk[h] = 0
          THEN ChunkRows(h) = {}
          ELSE /\ Cardinality(ChunkRows(h)) = 1
               /\ \A i \in ChunkRows(h) : chunks[i].ref_count = putOk[h]

(* two uploads of one hash and one of another hash answered 200 *)
C8_Witness ==
    \E h1, h2 \in ChunkHashes : h1 # h2 /\ putOk[h1] >= 2 /\ putOk[h2] >= 1

(* C9, as stated: every upload_chunk call with a well-formed hash and the   *)
(* bytes that hash to it, made by a developer, answers 200; the other      *)
(* answers are 400, 401 and 403, for calls that fail those checks.         *)
C9_EveryPutSucceeds ==
    resp.op = "upload_chunk" => resp.status \in {200, 400, 401, 403}

(* C11. Every chunk file holds bytes that hash to the hash it is stored    *)
(* under, and an upload_chunk call answered "Hash mismatch" is answered    *)
(* 400 and leaves the chunk files, the chunks table and the counts of      *)
(* writes and of successful uploads as they were.                          *)
C11_MismatchStoresNothing ==
    /\ [](\A path \in DOMAIN disk : path = HexShard(Sha256(disk[path].bytes)))
    /\ [][(resp' # resp /\ resp'.detail = "Hash mismatch")
            => (resp'.status = 400 /\ UNCHANGED <<disk, chunks, writes, putOk>>)]_vars

(* a call is answered "Hash mismatch" although its hash is stored *)
C11_Witness ==
    /\ resp.op = "upload_chunk"
    /\ resp.detail = "Hash mismatch"
    /\ chunks # <<>>
    /\ \E p \in UploadProcs : upc[p] # "idle"

(* C10, as stated: the bytes of a hash are written once, however many      *)
(* upload_chunk calls are made for it.                                     *)
C10_BytesWrittenOnce == \A h \in ChunkHashes : writes[h] <= 1

----------------------------------------------------------------------------
(* Distribution: specification *)

SlugX == <<"x">>
SlugY == <<"y">>
BadSlug == <<"X">>
Version1 == <<"1">>
Version2 == <<"2">>
Mac == <<"m", "a", "c">>
Stable == <<"s", "t", "a", "b", "l", "e">>

(* the manifest of one file of one chunk with the given content *)
ManifestOf(app, version, body) ==
    [app |-> app, version |-> version, platform |-> Mac, channel |-> Stable,
     total_size |-> BodyLen(body),
     files |-> << [path |-> << <<".">>, <<"game">> >>, size |-> BodyLen(body),
                   sha256 |-> Sha256("z"),
                   chunks |-> << [offset |-> 0, size |-> BodyLen(body),
                                  sha256 |-> Sha256(body)] >>] >>,
     chunk_base |-> "chunks", signature |-> NULL]

(* manifests that _validate_manifest_files refuses: a total_size that is   *)
(* not the sum of the file sizes, a chunk that does not start where the    *)
(* chunk before it ends, a path that climbs out of the build               *)
InvalidManifests ==
    {[ManifestOf(SlugX, Version1, "x") EXCEPT !.total_size = 0],
     [ManifestOf(SlugX, Version1, "x") EXCEPT !.files[1].chunks[1].offset = 1],
     [ManifestOf(SlugX, Version1, "x") EXCEPT
         !.files[1].path = << <<".", ".">>, <<".", ".">>, <<"etc">>, <<"passwd">> >>]}

(* version 1 of an app is the chunk "x", version 2 the chunk "y" *)
ManifestInputs ==
    {ManifestOf(SlugX, Version1, "x"), ManifestOf(SlugX, Version2, "y"),
     ManifestOf(SlugY, Version1, "x")} \cup InvalidManifests

(* An admin (1), a developer (2) and a user (3) are registered, each with  *)
(* a session. The developer has uploaded the chunks "x" and "y", created   *)
(* the app "y" and finalized its build of version 1; the admin has         *)
(* approved the submission.                                                *)
InitDist ==
    /\ Registered(<<"admin", "dev", "user">>, <<NoDevice, NoDevice, NoDevice>>)
    /\ ClientIdle
    /\ chunks = <<NewChunkRow(Sha256("x"), "x"), NewChunkRow(Sha256("y"), "y")>>
    /\ disk = (HexShard(Sha256("x")) :> [bytes |-> "x"])
                 @@ (HexShard(Sha256("y")) :> [bytes |-> "y"])
                 @@ (ManifestRel(ManifestOf(SlugY, Version1, "y"))
                        :> NormalizedManifest(ManifestOf(SlugY, Version1, "y")))
    /\ upc = [p \in UploadProcs |-> "idle"]
    /\ ucall = [p \in UploadProcs |-> NULL]
    /\ writes = [h \in ChunkHashes |-> IF h = Sha256("z") THEN 0 ELSE 1]
    /\ putOk = [h \in ChunkHashes |-> IF h = Sha256("z") THEN 0 ELSE 1]
    /\ apps = << [id |-> 1, slug |-> SlugY, owner_user_id |-> 2, is_approved |-> 1,
                  ever_approved |-> TRUE] >>
    /\ builds = << [id |-> 1, app_id |-> 1, version |-> Version1, platform |-> Mac,
                    channel |-> Stable, status |-> "ready",
                    manifest_url |-> ManifestRel(ManifestOf(SlugY, Version1, "y"))] >>
    /\ submissions = << [NewSubmission(1, 2, ManifestOf(SlugY, Version1, "y"))
                            EXCEPT !.status = "approved"] >>
    /\ purchases = {}
    /\ resp = NoResp

TokenOf(user_id) == CHOOSE t \in accessTokens : t.sub = user_id

(* the manifests a build is finalized with: those of its version *)
ManifestsFor(build_id) ==
    {m \in ManifestInputs : BuildById(build_id) = NULL \/ m.version = builds[build_id].version}

(* caller, hash, slug and version of the calls of the chunk endpoint *)
ChunkRequests ==
    {<<3, Sha256("x"), SlugX, Version1>>, <<3, Sha256("y"), SlugX, Version1>>,
     <<3, BadSlug, SlugX, Version1>>, <<3, Sha256("y"), SlugY, Version1>>,
     <<2, Sha256("x"), SlugX, Version1>>, <<2, Sha256("y"), SlugX, Version1>>,
     <<2, Sha256("y"), SlugX, <<>> >>, <<1, Sha256("y"), SlugX, Version2>>}

(* caller, path and version of the calls of the file endpoint: the path of *)
(* a manifest below storage/apps, as it is and with a "." segment, for its *)
(* version and for the other one, and a path that climbs                   *)
FileRequests ==
    {<<3, Tail(ManifestRel(ManifestOf(SlugX, Version1, "x"))), Version1>>,
     <<2, Tail(ManifestRel(ManifestOf(SlugX, Version1, "x"))), Version1>>,
     <<3, << <<".">> >> \o Tail(ManifestRel(ManifestOf(SlugX, Version2, "y"))), Version2>>,
     <<3, << <<".">> >> \o Tail(ManifestRel(ManifestOf(SlugX, Version2, "y"))), Version1>>,
     <<3, << <<".", ".">>, <<"chunks">> >>, Version1>>}

(* The developer works on the app "x": the app, its builds of two versions *)
(* and their submissions. The user reports purchases; the manifest and     *)
(* storage endpoints are called by the user, the developer and the admin.  *)
NextDist ==
    \/ \E u \in {2, 3}, slug \in {SlugX, SlugY, BadSlug} : CreateApp(TokenOf(u), slug)
    \/ \E v \in {Version1, Version2} : CreateBuild(TokenOf(2), MaxApps, v, Mac, Stable)
    \/ \E i \in DOMAIN builds,
          hs \in {<<Sha256("x"), Sha256("z")>>, <<Sha256("z"), BadSlug>>} :
          MissingChunks(TokenOf(2), i, hs)
    \/ \E i \in 2..MaxBuilds : \E m \in ManifestsFor(i) : FinalizeBuild(TokenOf(2), i, m)
    \/ \E u \in {1, 2}, i \in 1..MaxSubs : ApproveSubmission(TokenOf(u), i)
    \/ \E i \in 2..MaxSubs : RejectSubmission(TokenOf(1), i)
    \/ \E b \in {TokenOf(3), NULL}, a \in 0..MaxApps : ReportPurchase(b, a)
    \/ \E b \in {TokenOf(3), NULL}, slug \in {SlugX, SlugY} : GetManifest(b, slug, Mac, Stable)
    \/ \E r \in ChunkRequests : GetChunk(TokenOf(r[1]), r[2], r[3], r[4], Mac, Stable)
    \/ \E r \in FileRequests : GetStorageFile(TokenOf(r[1]), r[2], SlugX, r[3], Mac, Stable)

SpecDist == InitDist /\ [][NextDist]_vars

(* the manifests handed to finalize_build where any of them may meet any   *)
(* build                                                                   *)
PublishManifests ==
    {ManifestOf(SlugX, Version1, "x"), ManifestOf(SlugX, Version2, "y"),
     ManifestOf(SlugY, Version1, "x")}

(* Publishing: the developer creates, unpublishes and builds the app "x"   *)
(* and finalizes a build with the manifest of either version; the admin    *)
(* reviews, the user reports purchases and downloads.                      *)
NextPublish ==
    \/ \E slug \in {SlugX, SlugY} : CreateApp(TokenOf(2), slug)
    \/ UnpublishApp(TokenOf(2), SlugX)
    \/ \E v \in {Version1, Version2} : CreateBuild(TokenOf(2), MaxApps, v, Mac, Stable)
    \/ \E i \in 2..MaxBuilds, m \in PublishManifests : FinalizeBuild(TokenOf(2), i, m)
    \/ \E i \in 2..MaxSubs : ApproveSubmission(TokenOf(1), i)
    \/ \E i \in 2..MaxSubs : RejectSubmission(TokenOf(1), i)
    \/ \E a \in 1..MaxApps : ReportPurchase(TokenOf(3), a)
    \/ \E slug \in {SlugX, SlugY} : GetManifest(TokenOf(3), slug, Mac, Stable)
    \/ \E v \in {Version1, Version2} :
          GetChunk(TokenOf(3), Sha256("x"), SlugX, v, Mac, Stable)

SpecPublish == InitDist /\ [][NextPublish]_vars

----------------------------------------------------------------------------
(* Distribution: properties. Every step of SpecDist is one whole handler   *)
(* and sets resp, so resp is the answer given in the current state.        *)

DownloadOps == {"get_manifest", "get_chunk", "get_storage_file"}

(* the caller of the answered call is admin, owns the app of the call or   *)
(* has a purchase of it                                                    *)
CallerEntitled ==
    LET a == AppBySlug(resp.req.slug)
    IN  \/ users[resp.req.uid].role = "admin"
        \/ a.owner_user_id = resp.req.uid
        \/ [app_id |-> a.id, user_id |-> resp.req.uid] \in purchases

(* the answered call is a download call of an authenticated caller for an  *)
(* app that exists, and the caller is not entitled to the app              *)
GatedCall ==
    /\ resp.op \in DownloadOps
    /\ resp.req.uid # 0
    /\ AppBySlug(resp.req.slug) # NULL
    /\ ~CallerEntitled

(* C5. A download call of an authenticated caller who is not admin, does   *)
(* not own the app and has no purchase of it returns no manifest and no    *)
(* bytes; it fails with 403 "Purchase required", except that the chunk     *)
(* endpoint refuses a malformed hash with 400 before it looks at the       *)
(* caller's access.                                                        *)
C5_Gating ==
    GatedCall =>
        /\ resp.body = NULL
        /\ IF resp.op = "get_chunk" /\ ~IsSha256(resp.req.hash)
           THEN resp.status = 400 /\ resp.detail = "Invalid sha256"
           ELSE resp.status = 403 /\ resp.detail = "Purchase required"

(* the user holds a purchase of another app and is refused a chunk that is *)
(* stored and listed in the manifest of the build the call names           *)
C5_Witness ==
    /\ GatedCall
    /\ resp.op = "get_chunk"
    /\ resp.status = 403
    /\ \E pu \in purchases : pu.user_id = resp.req.uid
    /\ Exists(HexShard(resp.req.hash))
    /\ \E i \in DOMAIN builds :
          /\ builds[i].status = "ready"
          /\ builds[i].version = resp.req.version
          /\ apps[builds[i].app_id].slug = resp.req.slug
          /\ ManifestContainsChunk(disk[builds[i].manifest_url], resp.req.hash)

(* C5, as stated: every such call fails with 403 *)
C5_AsStated == GatedCall => resp.status = 403

(* the ready builds with the coordinates of the answered call, and the one *)
(* the call resolves to                                                    *)
Candidates ==
    {i \in DOMAIN builds :
        /\ builds[i].status = "ready"
        /\ apps[builds[i].app_id].slug = resp.req.slug
        /\ builds[i].platform = resp.req.platform
        /\ builds[i].channel = resp.req.channel
        /\ resp.req.version = <<>> \/ builds[i].version = resp.req.version}

Resolved == CHOOSE i \in Candidates : \A j \in Candidates : j <= i

ManifestHashes(manifest) ==
    UNION {{manifest.files[i].chunks[k].sha256 : k \in DOMAIN manifest.files[i].chunks} :
              i \in DOMAIN manifest.files}

(* C6, as stated: a manifest or chunk returned to a caller who is neither  *)
(* admin nor the owner of the app belongs to a build with an approved      *)
(* submission.                                                             *)
C6_OnlyApprovedBuildsServed ==
    (/\ resp.op \in {"get_manifest", "get_chunk"}
     /\ resp.status = 200
     /\ users[resp.req.uid].role # "admin"
     /\ AppBySlug(resp.req.slug).owner_user_id # resp.req.uid)
    => \E i \in DOMAIN submissions :
          /\ submissions[i].manifest_url = builds[Resolved].manifest_url
          /\ submissions[i].status = "approved"

(* C7. The chunk endpoint returns bytes only to a caller entitled to the   *)
(* app, only of a hash listed in the manifest of the ready build the       *)
(* coordinates resolve to, and the bytes are those stored under the hash;  *)
(* a stored hash that this manifest does not list is answered 404.         *)
C7_ChunkInManifest ==
    resp.op = "get_chunk" =>
        /\ resp.status = 200 =>
              /\ CallerEntitled
              /\ Candidates # {}
              /\ resp.req.hash \in ManifestHashes(disk[builds[Resolved].manifest_url])
              /\ resp.body = disk[HexShard(resp.req.hash)]
        /\ (/\ resp.req.uid # 0
            /\ IsSha256(resp.req.hash)
            /\ AppBySlug(resp.req.slug) # NULL
            /\ CallerEntitled
            /\ Candidates # {}
            /\ resp.req.hash \notin ManifestHashes(disk[builds[Resolved].manifest_url]))
           => resp.status = 404 /\ resp.detail = "Chunk not in manifest"

(* the owner of an app asks for a chunk that is stored and listed only in  *)
(* the manifest of another app, and gets 404                               *)
C7_Witness ==
    /\ resp.op = "get_chunk"
    /\ resp.status = 404
    /\ resp.detail = "Chunk not in manifest"
    /\ CallerEntitled
    /\ Exists(HexShard(resp.req.hash))
    /\ \E i \in DOMAIN builds :
          /\ builds[i].status = "ready"
          /\ apps[builds[i].app_id].slug # resp.req.slug
          /\ resp.req.hash \in ManifestHashes(disk[builds[i].manifest_url])

(* C12. A finalize_build call with a manifest that has a total_size other  *)
(* than the sum of its file sizes, a gap in the chunk offsets of a file or *)
(* a file path with a ".." segment is answered 400 and changes neither the *)
(* files on disk nor the builds, submissions, chunks and apps tables.      *)
C12_InvalidManifestNoEffect ==
    [][resp'.op = "finalize_build" =>
          \A i \in 2..MaxBuilds, m \in InvalidManifests :
              FinalizeBuild(TokenOf(2), i, m) =>
                  /\ resp'.status = 400
                  /\ UNCHANGED <<disk, builds, submissions, chunks, apps, purchases>>]_vars

(* a manifest with a gap in its chunk offsets is refused while the         *)
(* developer has a draft build of its version                              *)
C12_Witness ==
    /\ resp.op = "finalize_build"
    /\ resp.status = 400
    /\ resp.detail = "Invalid chunk offsets"
    /\ \E i \in DOMAIN builds : builds[i].status = "draft" /\ builds[i].version = Version1

(* the manifest names another app, version, platform or channel than the   *)
(* build                                                                   *)
DeclaresOtherBuild(manifest, build) ==
    \/ manifest.app # apps[build.app_id].slug
    \/ manifest.version # build.version
    \/ manifest.platform # build.platform
    \/ manifest.channel # build.channel

(* C13, as stated: a finalize_build call with a manifest whose app,        *)
(* version, platform or channel is not the one of the build fails, writes  *)
(* no manifest, leaves the build as it was and opens no submission.        *)
C13_MismatchRefused ==
    [][resp'.op = "finalize_build" =>
          \A i \in DOMAIN builds, m \in PublishManifests :
              (FinalizeBuild(TokenOf(2), i, m) /\ DeclaresOtherBuild(m, builds[i])) =>
                  /\ resp'.status # 200
                  /\ UNCHANGED <<disk, builds, submissions>>]_vars

(* C19, as stated: the status of a submission that is not pending never    *)
(* changes.                                                                *)
C19_StatusTerminal ==
    [][\A i \in DOMAIN submissions :
          submissions[i].status # "pending" =>
              submissions'[i].status = submissions[i].status]_vars

(* the answered call is a manifest or chunk call of an authenticated       *)
(* caller, neither admin nor owner, for an app that exists                 *)
OutsiderCall ==
    /\ resp.op \in {"get_manifest", "get_chunk"}
    /\ resp.req.uid # 0
    /\ AppBySlug(resp.req.slug) # NULL
    /\ users[resp.req.uid].role # "admin"
    /\ AppBySlug(resp.req.slug).owner_user_id # resp.req.uid

(* C20. Purchases exist only of apps a submission of which has been        *)
(* approved; a manifest or chunk call of a caller who is neither admin nor *)
(* owner for an app that never had an approved submission fails and        *)
(* returns nothing; a manifest call of a caller with a purchase of the app *)
(* returns the manifest of the latest ready build.                         *)
C20_ReviewBeforeAccess ==
    /\ \A pu \in purchases : apps[pu.app_id].ever_approved
    /\ (OutsiderCall /\ ~AppBySlug(resp.req.slug).ever_approved)
          => (resp.status # 200 /\ resp.body = NULL)
    /\ (/\ OutsiderCall
        /\ resp.op = "get_manifest"
        /\ [app_id |-> AppBySlug(resp.req.slug).id, user_id |-> resp.req.uid] \in purchases)
          => /\ resp.status = 200
             /\ Candidates # {}
             /\ resp.body = disk[builds[Resolved].manifest_url]

(* the user gets the manifest of the app "x", which was reviewed and       *)
(* bought in this behaviour                                                *)
C20_Witness ==
    /\ OutsiderCall
    /\ resp.op = "get_manifest"
    /\ resp.status = 200
    /\ resp.req.slug = SlugX
    /\ [app_id |-> AppBySlug(SlugX).id, user_id |-> resp.req.uid] \in purchases

----------------------------------------------------------------------------
(* Clients: the build folders, the manifests and the machines of the model *)

(* A file of the folder: its path below the folder, name by name, and its  *)
(* bytes.                                                                  *)
File(path, bytes) == [path |-> path, bytes |-> bytes]

(* a file of two chunks, an empty file and a file of one chunk twice, the  *)
(* first chunk of the first file                                           *)
FolderSame ==
    << File(<< <<"d">>, <<"b">> >>, <<0, 1, 0>>), File(<< <<"a">> >>, <<>>),
       File(<< <<"c">> >>, <<0, 1, 0, 1>>) >>

(* three chunks, no two alike *)
FolderPlain ==
    << File(<< <<"d">>, <<"b">> >>, <<0, 1, 0>>), File(<< <<"a">> >>, <<1, 1>>) >>

(* FolderPlain with another file "a": one new chunk *)
FolderPlainNext ==
    << File(<< <<"d">>, <<"b">> >>, <<0, 1, 0>>), File(<< <<"a">> >>, <<1, 0>>) >>

(* file names a POSIX filesystem takes: with a backslash, with a blank in  *)
(* front, with a colon                                                     *)
FolderBackslash == << File(<< <<"a", "\\", "b">> >>, <<1>>) >>

FolderBlank == << File(<< <<" ", "a">> >>, <<1>>) >>

FolderColon == << File(<< <<"a", ":">> >>, <<1>>) >>

Folders == {FolderSame, FolderPlain, FolderPlainNext, FolderBackslash, FolderBlank, FolderColon}

(* the machine of the player: the install directory has a link "l" to a    *)
(* directory that is not below it                                          *)
PlayerMachine ==
    (Elsewhere :> [kind |-> "dir"])
        @@ (SubSeq(InstallDir, 1, 1) :> [kind |-> "dir"])
        @@ (InstallDir :> [kind |-> "dir"])
        @@ (Append(InstallDir, <<"l">>) :> [kind |-> "link", target |-> Elsewhere])

(* An admin (1), a developer (2) and a user (3) are registered; the        *)
(* database and the storage directory are empty; the developer has a       *)
(* build folder.                                                           *)
InitRoundTrip ==
    /\ Registered(<<"admin", "dev", "user">>, <<NoDevice, NoDevice, NoDevice>>)
    /\ StoreEmpty
    /\ DistEmpty
    /\ resp = NoResp
    /\ folder \in Folders
    /\ up = UploadIdle
    /\ inst = InstallIdle
    /\ fsys = PlayerMachine

(* the most chunks of a manifest of the model *)
MaxChunks == 4

(* The developer uploads the folder as version 1 of the app "x", changes   *)
(* it and uploads it as version 2; between two uploads the developer       *)
(* installs the app. One person does one thing at a time: no upload starts *)
(* during an install and no install during an upload.                      *)
NextRoundTrip ==
    \/ /\ inst.pc # "chunks"
       /\ UploadBegin(TokenOf(2), SlugX, IF builds = <<>> THEN Version1 ELSE Version2,
                      Mac, Stable)
    \/ UploadMissing(TokenOf(2))
    \/ UploadNext(TokenOf(2))
    \/ UploadFinalize(TokenOf(2))
    \/ \E root \in Folders : EditFolder(root)
    \/ /\ up.pc \in {"idle", "done", "failed"}
       /\ InstallRun(TokenOf(2), SlugX, Mac, Stable)
    \/ \E k \in 1..MaxChunks : FetchChunk(TokenOf(2), k)
    \/ AssembleFile
    \/ InstallDone

SpecRoundTrip == InitRoundTrip /\ [][NextRoundTrip]_vars

(* the manifest build_manifest makes of FolderPlain *)
GoodManifest == build_manifest(FolderPlain, SlugX, Version1, Mac, Stable)

(* the paths of an entry of a manifest the player is handed: absolute,     *)
(* climbing with "..", climbing behind backslashes, through the link "l",  *)
(* and below the install directory behind a backslash                      *)
HostilePaths ==
    {<<"/", "e">>, <<".", ".", "/", "e">>, <<"d", "\\", ".", ".", "\\", ".", ".", "\\", "e">>,
     <<"l", "/", "e">>, <<"d", "\\", "e">>}

(* GoodManifest, GoodManifest with the sha256 of another file, with the    *)
(* chunks of a file in another order, without app, and with a hostile path *)
(* of its second file                                                      *)
InstallManifests ==
    {GoodManifest,
     [GoodManifest EXCEPT !.files[1].sha256 = sha256_bytes(<<1>>)],
     [GoodManifest EXCEPT !.files[1].chunks = Reverse(@)],
     [GoodManifest EXCEPT !.app = <<>>]}
        \cup {[GoodManifest EXCEPT !.files[2].path = path] : path \in HostilePaths}

(* what arrives for a chunk: the bytes of a chunk of GoodManifest, bytes   *)
(* with a value flipped or cut off, or an error status                     *)
ChunkAnswers ==
    {[status |-> 200, content |-> b] : b \in {<<0, 1>>, <<0>>, <<1, 1>>, <<1, 0>>, <<>>}}
        \cup {[status |-> 404, content |-> <<>>]}

InitInstall ==
    /\ Registered(<<"user">>, <<NoDevice>>)
    /\ StoreEmpty
    /\ DistEmpty
    /\ resp = NoResp
    /\ folder = <<>>
    /\ up = UploadIdle
    /\ inst = InstallIdle
    /\ fsys = PlayerMachine

(* install_from_manifest with any manifest, whatever the network delivers *)
NextInstall ==
    \/ \E man \in InstallManifests : InstallBegin(man)
    \/ \E k \in 1..MaxChunks, r \in ChunkAnswers : DownloadChunk(k, r)
    \/ AssembleFile
    \/ InstallDone

SpecInstall == InitInstall /\ [][NextInstall]_vars

----------------------------------------------------------------------------
(* Clients: properties *)

(* the file fp of the folder is a file of the install directory, at the    *)
(* same path below it and with the same bytes                              *)
Installed(fp) ==
    /\ InstallDir \o fp.path \in DOMAIN fsys
    /\ fsys[InstallDir \o fp.path] = [kind |-> "file", bytes |-> fp.bytes]

(* upload_folder has uploaded the folder and install_from_manifest has     *)
(* installed the manifest that upload left on the backend                  *)
UploadedAndInstalled ==
    /\ up.pc = "done"
    /\ inst.pc = "done"
    /\ inst.man = ManifestJson(NormalizedManifest(ParsedManifest(up.manifest)))

(* C14, as stated: after the upload of the folder and the install of the   *)
(* resulting manifest every file of the folder is in the install directory *)
(* at its relative path with its bytes.                                    *)
C14_RoundTrip == UploadedAndInstalled => \A i \in DOMAIN folder : Installed(folder[i])

(* C15, as stated: get_missing returns exactly the hashes of the manifest  *)
(* that are not stored, and after upload_folder every chunk of the         *)
(* manifest is stored with ref_count 1.                                    *)
C15_RefCountOne ==
    /\ (up.pc = "upload" /\ up.todo = FolderChunks(folder))
          => up.missing = {h \in Range(up.asked) : ~Exists(HexShard(h))}
    /\ up.pc = "done"
          => \A h \in Range(all_hashes(up.manifest.files)) :
                 /\ Exists(HexShard(h))
                 /\ \E i \in DOMAIN chunks : chunks[i].hash = h /\ chunks[i].ref_count = 1

(* a file of the machine is new or has other bytes after the step *)
FileChanged(p) ==
    /\ fsys'[p].kind = "file"
    /\ p \notin DOMAIN fsys \/ fsys[p] # fsys'[p]

(* C16. When the bytes that arrive for a chunk do not hash to the hash of  *)
(* the chunk, install_from_manifest ends with "Chunk hash mismatch" in     *)
(* that step; the run has written no file then, and no file of the machine *)
(* is changed by a step unless the run records it as written.              *)
C16_CorruptChunkAborts ==
    /\ [][\A k \in 1..MaxChunks, r \in ChunkAnswers :
             (/\ DownloadChunk(k, r)
              /\ r.status = 200
              /\ sha256_bytes(r.content) # all_hashes(inst.man.files)[k])
                 => /\ inst'.pc = "failed"
                    /\ inst'.error = "Chunk hash mismatch"
                    /\ inst'.written = {}
                    /\ fsys' = fsys]_vars
    /\ [][\A p \in DOMAIN fsys' : FileChanged(p) => p \in inst'.written]_vars
    /\ [](inst.error = "Chunk hash mismatch" => (inst.pc = "failed" /\ inst.written = {}))

(* an install has ended on a corrupt chunk after another chunk had arrived *)
(* intact                                                                  *)
C16_Witness ==
    /\ inst.pc = "failed"
    /\ inst.error = "Chunk hash mismatch"
    /\ inst.data_map # <<>>

(* the entry f of the manifest is on disk as the chunks of f in their      *)
(* order, and the sha256 of the file is the one of f                       *)
FileVerified(f) ==
    LET out == SafeOutputPath(InstallDir, f.path)
    IN  /\ out.err = ""
        /\ out.target \in DOMAIN fsys
        /\ fsys[out.target] = [kind |-> "file", bytes |-> Assembled(f.chunks, inst.data_map)]
        /\ sha256_bytes(fsys[out.target].bytes) = f.sha256

(* C17. When install_from_manifest has returned True, every file of the    *)
(* manifest is on disk as its chunks in their order with the sha256 of its *)
(* entry; the step that writes a file with another sha256 ends the install *)
(* with "Hash mismatch", though every chunk had the sha256 asked for.      *)
C17_SuccessMeansVerified ==
    /\ [](inst.pc = "done" => \A i \in DOMAIN inst.man.files : FileVerified(inst.man.files[i]))
    /\ [][(/\ inst.pc = "chunks"
           /\ inst'.written # inst.written
           /\ sha256_bytes(Assembled(inst.man.files[inst.next].chunks, inst.data_map))
                 # inst.man.files[inst.next].sha256)
              => (inst'.pc = "failed" /\ inst'.error = "Hash mismatch")]_vars

(* an install of two files has returned True *)
C17_Witness ==
    /\ inst.pc = "done"
    /\ Len(inst.man.files) = 2
    /\ Cardinality(inst.written) = 2

(* the path names the install directory or a file or directory below it *)
InsideInstallDir(p) ==
    /\ Len(p) >= Len(InstallDir)
    /\ \A i \in 1..Len(InstallDir) : p[i] = InstallDir[i]

(* C18. Every file and directory the install creates is the install        *)
(* directory or below it, every path the run writes is below it, and the   *)
(* step that meets a path _safe_output_path refuses ends the install and   *)
(* leaves the machine as it is.                                            *)
C18_WritesInsideRoot ==
    /\ [](/\ \A p \in DOMAIN fsys \ DOMAIN PlayerMachine : InsideInstallDir(p)
          /\ \A p \in DOMAIN PlayerMachine : fsys[p] = PlayerMachine[p]
          /\ \A p \in inst.written : InsideInstallDir(p))
    /\ [][(/\ inst.pc = "chunks"
           /\ inst.pending = {}
           /\ inst.next \in DOMAIN inst.man.files
           /\ SafeOutputPath(InstallDir, inst.man.files[inst.next].path).err # "")
              => (inst'.pc = "failed" /\ fsys' = fsys)]_vars

(* an install has written its first file and then met a path through the   *)
(* link that leaves the install directory                                  *)
C18_Witness ==
    /\ inst.pc = "failed"
    /\ inst.error = "Path escapes install root"
    /\ inst.written # {}

----------------------------------------------------------------------------
(* Role gates: specification and properties *)

(* what a caller presents: the token of the admin (1), of the developer    *)
(* (2), of the user (3), no token, a token the server did not sign         *)
RoleBearers == {TokenOf(1), TokenOf(2), TokenOf(3), NULL, ForgedBearer}

(* a call of a developer endpoint by this caller: the app "x", a build of  *)
(* version 2 of the app "y", the second build, the chunk "x", which is     *)
(* stored, so that upload_chunk updates its row                            *)
PublisherCall(b) ==
    \/ CreateApp(b, SlugX)
    \/ CreateBuild(b, 1, Version2, Mac, Stable)
    \/ MissingChunks(b, 2, <<Sha256("x"), Sha256("z")>>)
    \/ UploadStart("u1", b, Sha256("x"), "x")
    \/ FinalizeBuild(b, 2, ManifestOf(SlugY, Version2, "y"))

(* a call of an admin endpoint by this caller *)
AdminCall(b) ==
    \/ ApproveSubmission(b, 2)
    \/ RejectSubmission(b, 2)
    \/ AdminSetRole(b, 2, "user")
    \/ ListSubmissions(b, "pending")

(* The three accounts call every developer and admin endpoint, with and    *)
(* without a token. The tokens were issued at registration and claim the   *)
(* role user; the roles are those of the users rows. The admin's set role  *)
(* takes the developer's role and revokes the developer's sessions; time   *)
(* passes until the access tokens have expired.                            *)
NextRoles ==
    \/ \E b \in RoleBearers : PublisherCall(b)
    \/ UploadSelect("u1")
    \/ UploadUpdate("u1")
    \/ \E b \in RoleBearers : AdminCall(b)
    \/ now = 0 /\ Tick

SpecRoles == InitDist /\ [][NextRoles]_vars

(* the role require_user reads from the users row of an authenticated      *)
(* caller                                                                  *)
RoleOfCaller(b) == users[b.sub].role

Authorized(b) == Authenticate(b).status = 200

(* the step answers with this status and changes nothing but the answer *)
GateAnswers(status) ==
    /\ resp'.status = status
    /\ UNCHANGED <<sessVars, storeVars, distVars, clientVars>>

(* C21. A developer call of an authenticated caller whose role is user     *)
(* answers 403, an admin call of an authenticated caller whose role is not *)
(* admin answers 403, every such call of a caller Authorize refuses        *)
(* answers 401, and each of these steps changes nothing but the answer:    *)
(* a step that does not answer so and keep the state is no such call.      *)
C21_RoleGates ==
    [][\A b \in RoleBearers :
          /\ (Authorized(b) /\ RoleOfCaller(b) = "user" /\ ~GateAnswers(403))
                => ~PublisherCall(b)
          /\ (Authorized(b) /\ RoleOfCaller(b) # "admin" /\ ~GateAnswers(403))
                => ~AdminCall(b)
          /\ (~Authorized(b) /\ ~GateAnswers(401))
                => ~(PublisherCall(b) \/ AdminCall(b))]_vars

(* the user, whose session is live, was refused the finalize of a build    *)
(* that exists and is still a draft                                        *)
C21_Witness ==
    /\ resp.op = "finalize_build"
    /\ resp.status = 403
    /\ resp.detail = "Developer role required"
    /\ Authorized(TokenOf(3))
    /\ \E i \in DOMAIN builds : builds[i].status = "draft"

----------------------------------------------------------------------------
(* Ownership: specification and properties *)

(* a version COMP_RE refuses *)
BadVersion == <<"1", "/", "2">>

(* manifests of version 1 of either app, and one whose chunk offsets are   *)
(* refused                                                                 *)
OwnerManifests ==
    {ManifestOf(SlugX, Version1, "x"), ManifestOf(SlugY, Version1, "x"),
     [ManifestOf(SlugX, Version1, "x") EXCEPT !.files[1].chunks[1].offset = 1]}

(* The admin (1) and the developer (2) both publish: either creates the    *)
(* app "x", and either calls create build, missing-chunks and finalize on  *)
(* its own apps and builds and on those of the other.                      *)
NextOwner ==
    \/ \E u \in {1, 2} : CreateApp(TokenOf(u), SlugX)
    \/ \E u \in {1, 2}, a \in 1..MaxApps, v \in {Version1, BadVersion} :
          CreateBuild(TokenOf(u), a, v, Mac, Stable)
    \/ \E u \in {1, 2}, i \in 1..MaxBuilds : MissingChunks(TokenOf(u), i, <<Sha256("z")>>)
    \/ \E u \in {1, 2}, i \in 1..MaxBuilds, m \in OwnerManifests :
          FinalizeBuild(TokenOf(u), i, m)

SpecOwner == InitDist /\ [][NextOwner]_vars

(* the app exists and its owner is another account *)
OwnedByOther(u, app_id) ==
    /\ app_id \in DOMAIN apps
    /\ apps[app_id].owner_user_id # u

(* the step answers with one of these statuses and changes nothing but the *)
(* answer                                                                  *)
Refused(statuses) ==
    /\ resp'.status \in statuses
    /\ UNCHANGED <<sessVars, storeVars, distVars, clientVars>>

(* C22. For a caller with the dev or admin role that does not own the app: *)
(* create build, missing-chunks and finalize never answer 200 and change   *)
(* no state; missing-chunks answers 403, create build and finalize answer  *)
(* 403 when version, platform, channel and manifest pass validation, and   *)
(* the 400 of the validation otherwise.                                    *)
C22_OwnerOnly ==
    [][\A u \in {1, 2} :
          /\ \A a \in 1..MaxApps :
                OwnedByOther(u, a) =>
                    /\ CreateBuild(TokenOf(u), a, Version1, Mac, Stable) => Refused({403})
                    /\ CreateBuild(TokenOf(u), a, BadVersion, Mac, Stable) => Refused({400})
          /\ \A i \in DOMAIN builds :
                OwnedByOther(u, builds[i].app_id) =>
                    /\ MissingChunks(TokenOf(u), i, <<Sha256("z")>>) => Refused({403})
                    /\ \A m \in OwnerManifests :
                          FinalizeBuild(TokenOf(u), i, m) =>
                              Refused(IF m.files[1].chunks[1].offset = 0
                                      THEN {403} ELSE {400})]_vars

(* the admin, who has the role but does not own the app, was refused the   *)
(* finalize of a draft build of the developer's app                        *)
C22_Witness ==
    /\ resp.op = "finalize_build"
    /\ resp.status = 403
    /\ resp.detail = "Not your app"
    /\ \E i \in DOMAIN builds : builds[i].status = "draft"

(* C22 as stated: every such call of a caller that does not own the app    *)
(* answers 403.                                                            *)
C22_AsStated ==
    [][\A u \in {1, 2} :
          /\ \A a \in 1..MaxApps, v \in {Version1, BadVersion} :
                (OwnedByOther(u, a) /\ CreateBuild(TokenOf(u), a, v, Mac, Stable))
                    => Refused({403})
          /\ \A i \in DOMAIN builds, m \in OwnerManifests :
                OwnedByOther(u, builds[i].app_id) =>
                    /\ MissingChunks(TokenOf(u), i, <<Sha256("z")>>) => Refused({403})
                    /\ FinalizeBuild(TokenOf(u), i, m) => Refused({403})]_vars

----------------------------------------------------------------------------
(* Session security: device binding, forced reset, revocation, expiry *)

(* the token names a session that is neither revoked nor expired, bound to *)
(* a device id, and the caller's device id (NoDevice: none sent) is not    *)
(* the bound one                                                           *)
OtherDevice(refresh_token, device_id) ==
    /\ ParseRefreshToken(refresh_token) # NULL
    /\ SessionActive(ParseRefreshToken(refresh_token)[1])
    /\ SessionRow(ParseRefreshToken(refresh_token)[1]).device_id # NoDevice
    /\ SessionRow(ParseRefreshToken(refresh_token)[1]).device_id # device_id

(* C23. A refresh_tokens call for a live session bound to a device id, by  *)
(* a caller whose device id is another one or absent, answers 401 "Device  *)
(* mismatch" and leaves the sessions table as it is.                       *)
C23_DeviceMismatch ==
    [][\A p \in RefreshProcs, t \in RefreshInputs, d \in DeviceInputs :
          (OtherDevice(t, d) /\ RefreshStart(p, t, d)) =>
              /\ resp'.op = "refresh"
              /\ resp'.status = 401
              /\ resp'.detail = "Device mismatch"
              /\ sessions' = sessions]_vars

(* one account with its session; nothing is stored *)
InitReset ==
    /\ Registered(<<"user">>, <<NoDevice>>)
    /\ StoreEmpty
    /\ DistEmpty
    /\ ClientIdle
    /\ resp = NoResp

(* the regular password of the account, the temporary one, a new one *)
ResetPasswords == {"pw1", "tmp", "pw2"}

(* The account's password is changed, a temporary password is set and      *)
(* cleared (auth.py), while the account logs in, refreshes and calls the   *)
(* API with the tokens it holds.                                           *)
NextReset ==
    \/ \E pw \in ResetPasswords : AuthLogin("e1", pw, NoDevice)
    \/ SetTempPassword(1, "tmp")
    \/ SetUserPassword(1, "pw2")
    \/ ClearTempPassword(1)
    \/ \E t \in refreshTokens : RefreshStart("r1", t, NoDevice)
    \/ RefreshRevoke("r1")
    \/ RefreshRotate("r1")
    \/ \E b \in accessTokens : Authorize(b)
    \/ Tick

SpecReset == InitReset /\ [][NextReset]_vars

(* C24. A login for an account whose force_password_reset is set answers   *)
(* 403 PASSWORD_RESET_REQUIRED with the temporary password and 401 with    *)
(* any other, and creates no session and hands out no token.               *)
C24_ForcedResetLogin ==
    [][\A pw \in ResetPasswords :
          (users[1].force_password_reset = 1 /\ AuthLogin("e1", pw, NoDevice)) =>
              /\ resp'.op = "login"
              /\ IF VerifyPassword(pw, users[1].temp_password_hash)
                 THEN resp'.status = 403 /\ resp'.detail = "PASSWORD_RESET_REQUIRED"
                 ELSE resp'.status = 401 /\ resp'.detail = "Invalid credentials"
              /\ UNCHANGED <<sessions, refreshTokens, accessTokens>>]_vars

(* one account that can log in a second time, or two accounts, each with   *)
(* the session of its registration                                         *)
InitLogout ==
    /\ \/ Registered(<<"user">>, <<NoDevice>>)
       \/ Registered(<<"user", "user">>, <<NoDevice, NoDevice>>)
    /\ StoreEmpty
    /\ DistEmpty
    /\ ClientIdle
    /\ resp = NoResp

NextLogout ==
    \/ AuthLogin("e1", "pw1", NoDevice)
    \/ \E in \in LogoutInputs : AuthLogout(in[1], in[2])
    \/ \E b \in BearerInputs : Authorize(b)
    \/ \E t \in RefreshInputs : RefreshStart("r1", t, NoDevice)
    \/ RefreshRevoke("r1")
    \/ RefreshRotate("r1")
    \/ Tick

SpecLogout == InitLogout /\ [][NextLogout]_vars

(* the bearer token of a logout call is one the server signed and it has   *)
(* not expired                                                             *)
ValidBearer(b) == b # NULL /\ b.sig = "valid" /\ now < b.exp

(* the session a logout call names: that of a valid bearer token, else     *)
(* that of the refresh token of the body                                   *)
NamedByLogout(b, t) ==
    IF ValidBearer(b) THEN b.sid
    ELSE IF Dot \in Range(t) /\ t[1] # Dot /\ t[Len(t)] # Dot THEN <<t[1]>>
    ELSE NULL

(* C25. A logout call that names a session answers 200, leaves the session *)
(* it names revoked and every other row of sessions as it was; from then   *)
(* on a call with the access token of a revoked session answers 401 and a  *)
(* refresh_tokens call with a refresh token of it answers 401 at once.     *)
C25_LogoutRevokes ==
    [][/\ \A in \in LogoutInputs :
            (resp'.op = "logout" /\ NamedByLogout(in[1], in[2]) # NULL
                /\ AuthLogout(in[1], in[2])) =>
                /\ resp'.status = 200
                /\ DOMAIN sessions' = DOMAIN sessions
                /\ \A i \in DOMAIN sessions :
                      IF sessions[i].id = NamedByLogout(in[1], in[2])
                      THEN /\ sessions'[i].revoked_at # NULL
                           /\ [sessions'[i] EXCEPT !.revoked_at = NULL]
                                 = [sessions[i] EXCEPT !.revoked_at = NULL]
                      ELSE sessions'[i] = sessions[i]
       /\ \A b \in accessTokens :
            (resp'.op = "authorize" /\ RevokedIn(sessions, b.sid) /\ Authorize(b))
                => resp'.status = 401
       /\ \A t \in refreshTokens :
            (RevokedIn(sessions, <<t[1]>>) /\ RefreshStart("r1", t, NoDevice)) =>
                (resp'.status = 401 /\ rpc'["r1"] = "idle")
      ]_vars

(* a logout revoked one of two live sessions and left the other live *)
C25_Witness ==
    /\ resp.op = "logout"
    /\ resp.status = 200
    /\ \E i, j \in DOMAIN sessions :
          /\ sessions[i].id = resp.sid
          /\ sessions[i].revoked_at # NULL
          /\ sessions[j].revoked_at = NULL
          /\ now < sessions[j].refresh_expires_at[1]

(* C26. When the admin's set role for an account answers 200, every        *)
(* session of the account is revoked by the end of the call and the other  *)
(* rows of sessions are as they were; every access token handed out for    *)
(* the account is then refused by get_user_from_headers and every refresh  *)
(* token of it by the checks of refresh_tokens.                            *)
C26_SetRoleRevokes ==
    [][\A b \in BearerInputs, u \in 1..(Len(users) + 1), r \in {"dev", "admin", "root"} :
          (resp'.op = "set_role" /\ resp'.status = 200 /\ AdminSetRole(b, u, r)) =>
              /\ DOMAIN sessions' = DOMAIN sessions
              /\ \A i \in DOMAIN sessions :
                    IF sessions[i].user_id = u
                    THEN sessions'[i].revoked_at # NULL
                    ELSE sessions'[i] = sessions[i]
              /\ \A a \in accessTokens : a.sub = u => Authenticate(a)'.status = 401
              /\ \A t \in refreshTokens :
                    (\E i \in DOMAIN sessions :
                        sessions[i].id = <<t[1]>> /\ sessions[i].user_id = u)
                    => RefreshCheck(t, NoDevice)' = "Invalid refresh token"
      ]_vars

(* the account had two sessions, neither revoked by a logout, when its     *)
(* role was set                                                            *)
C26_Witness ==
    /\ resp.op = "set_role"
    /\ resp.status = 200
    /\ Len(sessions) = 2
    /\ \A i \in DOMAIN sessions : sessions[i].revoked_at = <<now>>

(* C27. When set_user_password or set_temp_password has changed the        *)
(* credential of an account, every session of the account is revoked by    *)
(* the end of the call.                                                    *)
C27_PasswordChangeRevokes ==
    [][(/\ resp'.op \in {"set_user_password", "set_temp_password"}
        /\ resp'.status = 200
        /\ (SetUserPassword(1, "pw2") \/ SetTempPassword(1, "tmp")))
          => \A i \in DOMAIN sessions :
                sessions[i].user_id = 1 => sessions'[i].revoked_at # NULL]_vars

(* the stored expiry of the session is at or before the current time *)
PastExpiry(session_id) ==
    \E i \in DOMAIN sessions :
        /\ sessions[i].id = session_id
        /\ sessions[i].refresh_expires_at[1] <= now

(* C28. For a session whose stored expiry is at or before the current      *)
(* time: a call with an access token of it answers 401, and a              *)
(* refresh_tokens call with a refresh token of it answers 401 at its       *)
(* checks and changes no row, whether the session is revoked or not. The   *)
(* passing of time changes no row. The expiry of a row changes only when a *)
(* refresh_tokens call that passed its checks before the expiry rotates    *)
(* and answers 200, and it becomes the time of the rotation plus           *)
(* REFRESH_TTL.                                                            *)
C28_ExpiryPassive ==
    [][/\ \A b \in BearerInputs :
            (resp'.op = "authorize" /\ PastExpiry(b.sid) /\ Authorize(b))
                => resp'.status = 401
       /\ \A p \in RefreshProcs :
            (rpc[p] = "idle" /\ (rpc'[p] # "idle" \/ resp'.op = "refresh")) =>
                \A t \in RefreshInputs :
                    (PastExpiry(SidOf(t)) /\ RefreshStart(p, t, NoDevice)) =>
                        /\ resp'.op = "refresh"
                        /\ resp'.status = 401
                        /\ rpc'[p] = "idle"
                        /\ sessions' = sessions
       /\ \A p \in RefreshProcs : PassesChecks(p) => ~PastExpiry(rcall'[p].sid)
       /\ now' # now => sessions' = sessions
       /\ \A i \in DOMAIN sessions :
            sessions'[i].refresh_expires_at # sessions[i].refresh_expires_at =>
                /\ \E p \in RefreshProcs :
                      rpc[p] = "rotate" /\ rpc'[p] = "idle" /\ rcall[p].sid = sessions[i].id
                /\ resp'.op = "refresh"
                /\ resp'.status = 200
                /\ sessions'[i].refresh_expires_at = <<now + REFRESH_TTL>>
      ]_vars

(* a refresh_tokens call with the current refresh token of a session that  *)
(* is past its expiry and not revoked was refused, and another session     *)
(* has had its expiry moved by a rotation                                  *)
C28_Witness ==
    /\ resp.op = "refresh"
    /\ resp.status = 401
    /\ resp.detail = "Refresh token expired"
    /\ PastExpiry(resp.sid)
    /\ ~RevokedIn(sessions, resp.sid)
    /\ \E i \in DOMAIN sessions : sessions[i].refresh_expires_at[1] > now

----------------------------------------------------------------------------
(* Distribution: resolution of the manifest, and its immutability *)

(* the ready builds of the slug, platform and channel of the answered      *)
(* call, of every version and of the version of the call                   *)
ReadyOfCall ==
    {i \in DOMAIN builds :
        /\ builds[i].status = "ready"
        /\ apps[builds[i].app_id].slug = resp.req.slug
        /\ builds[i].platform = resp.req.platform
        /\ builds[i].channel = resp.req.channel}

ReadyOfVersion == {i \in ReadyOfCall : builds[i].version = resp.req.version}

(* the content is the manifest file of the build of the set with the       *)
(* highest id                                                              *)
ManifestOfNewest(ids, content) ==
    \E i \in ids :
        /\ \A j \in ids : j <= i
        /\ builds[i].manifest_url # NULL
        /\ content = disk[builds[i].manifest_url]

ManifestFiles == {path \in DOMAIN disk : path[1] = <<"apps">>}

(* C30. A manifest file that finalize_build has written stays where it is  *)
(* and keeps its content, whatever is called afterwards.                   *)
C30_ManifestImmutable ==
    [][\A path \in ManifestFiles :
          /\ path \in DOMAIN disk'
          /\ disk'[path] = disk[path]]_vars

----------------------------------------------------------------------------
(* Finalize: the manifests it persists, their chunks, their submissions *)

(* one file of two chunks, "x" then "y", and a second file of one chunk *)
ManifestTwoFiles ==
    [ManifestOf(SlugX, Version1, "x") EXCEPT
        !.total_size = 4,
        !.files = << [path |-> << <<"game">> >>, size |-> 3, sha256 |-> Sha256("z"),
                      chunks |-> << [offset |-> 0, size |-> 1, sha256 |-> Sha256("x")],
                                    [offset |-> 1, size |-> 2, sha256 |-> Sha256("y")] >>],
                     [path |-> << <<"data">>, <<"a">> >>, size |-> 1, sha256 |-> Sha256("x"),
                      chunks |-> << [offset |-> 0, size |-> 1, sha256 |-> Sha256("x")] >>] >>]

(* a chunk of no bytes before the chunk "x": both are at offset 0 *)
ManifestEmptyChunk ==
    [ManifestOf(SlugX, Version2, "x") EXCEPT
        !.files[1].chunks = << [offset |-> 0, size |-> 0, sha256 |-> Sha256("y")],
                               [offset |-> 0, size |-> 1, sha256 |-> Sha256("x")] >>]

(* manifests _validate_manifest_files refuses: two paths that are one path *)
(* once normalized, a gap between two chunks, a chunk before offset 0, a   *)
(* file larger than its chunks, a total that is not the sum of the files   *)
ManifestsRefused ==
    {[ManifestTwoFiles EXCEPT !.files[2].path = << <<".">>, <<"game">> >>],
     [ManifestTwoFiles EXCEPT !.files[1].chunks[2].offset = 2],
     [ManifestTwoFiles EXCEPT !.files[1].chunks[1].offset = 1],
     [ManifestTwoFiles EXCEPT !.files[1].size = 4],
     [ManifestTwoFiles EXCEPT !.total_size = 3]}

(* the manifests handed to finalize_build; the chunk "z" of the last one   *)
(* was never uploaded                                                      *)
FinalizeManifests ==
    {ManifestOf(SlugX, Version1, "x"), ManifestOf(SlugY, Version1, "x"),
     ManifestTwoFiles, ManifestEmptyChunk, ManifestOf(SlugX, Version2, "z")}
        \cup ManifestsRefused

(* The developer creates the app "x" and builds of two versions of either  *)
(* app, and finalizes any build with any of the manifests.                 *)
NextFinalize ==
    \/ CreateApp(TokenOf(2), SlugX)
    \/ \E a \in 1..MaxApps, v \in {Version1, Version2} :
          CreateBuild(TokenOf(2), a, v, Mac, Stable)
    \/ \E i \in 1..MaxBuilds, m \in FinalizeManifests : FinalizeBuild(TokenOf(2), i, m)

SpecFinalize == InitDist /\ [][NextFinalize]_vars

RECURSIVE SumSizes(_)
SumSizes(rows) == IF rows = <<>> THEN 0 ELSE Head(rows).size + SumSizes(Tail(rows))

(* the chunks of a file lie end to end from offset 0 and cover the file *)
ChunksInOrder(file) ==
    LET chs == file.chunks
    IN  /\ chs # <<>> => chs[1].offset = 0
        /\ \A k \in 1..(Len(chs) - 1) : chs[k + 1].offset = chs[k].offset + chs[k].size
        /\ SumSizes(chs) = file.size

(* each chunk starts after the chunk before it *)
OffsetsIncrease(file) ==
    \A k \in 1..(Len(file.chunks) - 1) : file.chunks[k + 1].offset > file.chunks[k].offset

(* within each file the chunks are in order, the paths are pairwise        *)
(* distinct, the file sizes sum to total_size                              *)
WellFormed(m) ==
    /\ \A i \in DOMAIN m.files : ChunksInOrder(m.files[i])
    /\ \A i, j \in DOMAIN m.files : i # j => m.files[i].path # m.files[j].path
    /\ SumSizes(m.files) = m.total_size

(* C31. In every manifest file that finalize_build has written: within     *)
(* each file the chunk offsets start at 0 and are contiguous, no chunk has *)
(* a negative size, so the offsets never decrease and increase after every *)
(* chunk that has bytes, and the chunk sizes sum to the file's size; the   *)
(* normalized paths are pairwise distinct; the file sizes sum to           *)
(* total_size.                                                             *)
C31_ValidatedShape ==
    \A path \in ManifestFiles :
        /\ WellFormed(disk[path])
        /\ \A i \in DOMAIN disk[path].files :
              \A k \in DOMAIN disk[path].files[i].chunks :
                 LET ch == disk[path].files[i].chunks[k]
                 IN  /\ ch.size >= 0
                     /\ (k > 1 /\ disk[path].files[i].chunks[k - 1].size > 0)
                            => ch.offset > disk[path].files[i].chunks[k - 1].offset

(* a manifest of two files, one of them of two chunks, has been written,   *)
(* and so has one with a chunk of no bytes                                 *)
C31_Witness ==
    /\ \E path \in ManifestFiles :
          /\ Len(disk[path].files) = 2
          /\ \E i \in DOMAIN disk[path].files : Len(disk[path].files[i].chunks) = 2
    /\ \E path \in ManifestFiles :
          \E i \in DOMAIN disk[path].files :
             \E k \in DOMAIN disk[path].files[i].chunks :
                disk[path].files[i].chunks[k].size = 0

(* C31 as stated: the chunk offsets of every file of a written manifest    *)
(* are strictly increasing.                                                *)
C31_AsStated ==
    \A path \in ManifestFiles :
        /\ WellFormed(disk[path])
        /\ \A i \in DOMAIN disk[path].files : OffsetsIncrease(disk[path].files[i])

(* C32. Every chunk that the manifest of a ready build refers to is in the *)
(* chunk store: its file is on disk and it has a row in chunks.            *)
C32_ChunksStored ==
    \A i \in DOMAIN builds :
        builds[i].status = "ready" =>
            \A h \in ManifestHashes(disk[builds[i].manifest_url]) :
                /\ Exists(HexShard(h))
                /\ ChunkRows(h) # {}

(* submissions has no build_id column: the submissions of a build are the  *)
(* rows with the manifest_url of the build                                 *)
SubmissionsOf(build_id) ==
    {sid \in DOMAIN submissions :
        submissions[sid].manifest_url = builds[build_id].manifest_url}

(* C33. Each build has at most one submission and each ready build exactly *)
(* one; a build becomes ready only in a finalize_build step that answers   *)
(* 200, and its manifest file is written by then.                          *)
C33_OneSubmissionPerBuild ==
    /\ [](\A i \in DOMAIN builds :
             /\ Cardinality(SubmissionsOf(i)) <= 1
             /\ builds[i].status = "ready" => Cardinality(SubmissionsOf(i)) = 1)
    /\ [][\A i \in DOMAIN builds :
             (builds[i].status = "draft" /\ builds'[i].status = "ready")
                 => /\ resp'.op = "finalize_build"
                    /\ resp'.status = 200
                    /\ builds'[i].manifest_url \in DOMAIN disk']_vars

----------------------------------------------------------------------------
(* missing-chunks: specification and properties *)

(* The developer (2) has created the app "y" and a draft build of it;      *)
(* nothing is uploaded yet.                                                *)
InitDiff ==
    /\ Registered(<<"admin", "dev", "user">>, <<NoDevice, NoDevice, NoDevice>>)
    /\ StoreEmpty
    /\ ClientIdle
    /\ apps = << [id |-> 1, slug |-> SlugY, owner_user_id |-> 2, is_approved |-> 0,
                  ever_approved |-> FALSE] >>
    /\ builds = << [id |-> 1, app_id |-> 1, version |-> Version1, platform |-> Mac,
                    channel |-> Stable, status |-> "draft", manifest_url |-> NULL] >>
    /\ submissions = <<>>
    /\ purchases = {}
    /\ resp = NoResp

(* the hash lists of the missing-chunks calls; the last holds a string     *)
(* that is no sha256                                                       *)
DiffHashLists ==
    {<<Sha256("x"), Sha256("z")>>, <<Sha256("z"), Sha256("y"), Sha256("x")>>,
     <<Sha256("z"), BadSlug>>}

(* caller, build and hash list: the developer and the user, the build and *)
(* a build that does not exist                                             *)
DiffCalls == {2, 3} \X (1..2) \X DiffHashLists

(* missing-chunks is called while the developer uploads the chunks "x"    *)
(* and "z" in two handlers.                                               *)
NextDiff ==
    \/ \E c \in DiffCalls : MissingChunks(TokenOf(c[1]), c[2], c[3])
    \/ \E p \in UploadProcs, body \in {"x", "z"} :
          UploadStart(p, TokenOf(2), Sha256(body), body)
    \/ \E p \in UploadProcs : UploadSelect(p)
    \/ \E p \in UploadProcs : UploadUpdate(p)
    \/ \E p \in UploadProcs : UploadInsert(p)

SpecDiff == InitDiff /\ [][NextDiff]_vars

(* no upload_chunk handler writes its chunk file in this step *)
NoPutStarts == \A p \in UploadProcs : upc[p] = "idle" => upc'[p] = "idle"

(* C34. A missing-chunks call changes nothing but the answer, and the      *)
(* same call made in the state it leaves gets the same answer; the answer  *)
(* to a call stays the same over every step of another handler in which    *)
(* no upload_chunk call writes a chunk file.                               *)
C34_DiffIdempotent ==
    [][\A c \in DiffCalls :
          /\ (resp'.op = "missing_chunks" /\ MissingChunks(TokenOf(c[1]), c[2], c[3]))
                => /\ UNCHANGED <<sessVars, storeVars, distVars, clientVars>>
                   /\ MissingChunksAnswer(TokenOf(c[1]), c[2], c[3])' = resp'
          /\ (NoPutStarts /\ (resp' = resp \/ resp'.op # "missing_chunks"))
                => MissingChunksAnswer(TokenOf(c[1]), c[2], c[3])'
                      = MissingChunksAnswer(TokenOf(c[1]), c[2], c[3])]_vars

(* a call was answered with the chunk "z" missing and the chunk "x" not,   *)
(* while an upload_chunk handler is between its steps                      *)
C34_Witness ==
    /\ resp.op = "missing_chunks"
    /\ resp.status = 200
    /\ resp.body.missing = <<Sha256("z")>>
    /\ \E p \in UploadProcs : upc[p] = "insert"

----------------------------------------------------------------------------
(* The player client's worker pool: install_from_manifest, lines 72-79,    *)
(* with the threads of ThreadPoolExecutor(max_workers=workers)             *)

(* workers, the size of the pool *)
Workers == 2

(* a pool that starts a thread for every task submitted *)
PoolUnbounded == TRUE

(* a thread of the pool is idle, or the pool has fewer than max_workers    *)
(* threads and starts one                                                  *)
PoolHasIdleWorker == Cardinality(inst.running) < Workers

(* a thread takes the task of the k-th chunk from the queue and sends the  *)
(* request of _download_chunk; after an exception in the main thread the   *)
(* with block waits in shutdown(wait=True) and the queue is still served   *)
PoolStart(k) ==
    /\ inst.pc \in {"chunks", "draining"}
    /\ k \in inst.pending \ inst.running
    /\ PoolHasIdleWorker
    /\ inst' = [inst EXCEPT !.running = @ \cup {k}]
    /\ UNCHANGED <<fsys, installFrame>>

(* _download_chunk of the k-th chunk returns or raises in its thread, and  *)
(* the main thread takes fut.result(): data_map[h] is set, or the          *)
(* exception leaves the loop; results that arrive after that are dropped   *)
PoolFinish(k, r) ==
    LET h == all_hashes(inst.man.files)[k]
    IN  /\ inst.pc \in {"chunks", "draining"}
        /\ k \in inst.running
        /\ inst' = IF inst.pc = "draining"
                   THEN [inst EXCEPT !.pending = @ \ {k}, !.running = @ \ {k}]
                   ELSE IF r.status # 200
                   THEN [inst EXCEPT !.pc = "draining", !.error = "HTTPError",
                                     !.pending = @ \ {k}, !.running = @ \ {k}]
                   ELSE IF ChunkCorrupt(h, r.content)
                   THEN [inst EXCEPT !.pc = "draining", !.error = "Chunk hash mismatch",
                                     !.pending = @ \ {k}, !.running = @ \ {k}]
                   ELSE [inst EXCEPT !.pending = @ \ {k}, !.running = @ \ {k},
                                     !.data_map = (h :> r.content) @@ @]
        /\ UNCHANGED <<fsys, installFrame>>

(* shutdown(wait=True) returns: every task has run; the exception leaves   *)
(* install_from_manifest                                                   *)
PoolDrained ==
    /\ inst.pc = "draining"
    /\ inst.pending = {}
    /\ inst' = [inst EXCEPT !.pc = "failed"]
    /\ UNCHANGED <<fsys, installFrame>>

(* what arrives for a chunk: its bytes, other bytes, or an error status *)
PoolAnswers(k) ==
    {r \in ChunkAnswers :
        r.status # 200 \/ r.content = <<1, 1>>
           \/ sha256_bytes(r.content) = all_hashes(inst.man.files)[k]}

(* install_from_manifest of GoodManifest with a pool of Workers threads *)
NextPool ==
    \/ InstallBegin(GoodManifest)
    \/ \E k \in 1..MaxChunks : PoolStart(k)
    \/ \E k \in inst.running : \E r \in PoolAnswers(k) : PoolFinish(k, r)
    \/ PoolDrained
    \/ AssembleFile
    \/ InstallDone

SpecPool == InitInstall /\ [][NextPool]_vars

(* C35. At any moment at most Workers chunk fetches are in progress, and   *)
(* each of them is the fetch of a chunk of the manifest that has not       *)
(* arrived yet.                                                            *)
C35_BoundedFetches ==
    /\ Cardinality(inst.running) <= Workers
    /\ inst.running \subseteq inst.pending

(* the pool is busy with Workers fetches while further chunks of the       *)
(* manifest wait in the queue                                              *)
C35_Witness ==
    /\ Cardinality(inst.running) = Workers
    /\ Cardinality(inst.pending \ inst.running) >= 1
    /\ Cardinality(inst.pending) > Workers

----------------------------------------------------------------------------
(* finalize_build step by step: the handlers of two server processes       *)
(* interleave between the checks, the open and the write of write_text,    *)
(* the UPDATE of builds and the INSERT into submissions                    *)

(* the lines of json.dumps(manifest.dict(), indent=2): 11 for the manifest *)
(* and its fields, 7 for a file and 5 for each of its chunks, 6 for a file *)
(* without chunks; of two manifests of the model the one with more lines   *)
(* has more bytes                                                          *)
RECURSIVE JsonLines(_)
JsonLines(rows) ==
    IF rows = <<>> THEN 0
    ELSE (IF Head(rows).chunks = <<>> THEN 6 ELSE 7 + 5 * Len(Head(rows).chunks))
            + JsonLines(Tail(rows))

(* the file after open(path, "w"): no bytes *)
EmptyFile == [bytes |-> <<>>]

(* the lines of a file of storage/apps *)
FileLines(content) ==
    IF content = EmptyFile THEN 0
    ELSE IF "torn" \in DOMAIN content THEN content.lines
    ELSE 11 + JsonLines(content.files)

(* the file after this handler writes its JSON at offset 0 and closes: if  *)
(* another handler has written a longer JSON since this one opened the     *)
(* file, the end of that JSON stays behind the bytes written now           *)
WrittenOver(content, manifest) ==
    IF FileLines(content) > 11 + JsonLines(manifest.files)
    THEN [torn |-> <<manifest, content>>, lines |-> FileLines(content)]
    ELSE manifest

(* lines 849-863: the checks *)
FinalizeStart(p, bearer, build_id, manifest) ==
    /\ upc[p] = "idle"
    /\ \E e \in {FinalizeError(bearer, build_id, manifest)} :
          IF e.status # 200
          THEN /\ resp' = Answer("finalize_build", NULL, e, NULL)
               /\ UNCHANGED <<upc, ucall>>
          ELSE /\ Len(submissions) + Cardinality({q \in UploadProcs : upc[q] # "idle"})
                     < MaxSubs
               /\ upc' = [upc EXCEPT ![p] = "fin_open"]
               /\ ucall' = [ucall EXCEPT ![p] = [build_id |-> build_id,
                                                 user_id |-> bearer.sub,
                                                 manifest |-> manifest]]
               /\ UNCHANGED resp
    /\ UNCHANGED <<chunks, disk, writes, putOk, sessVars, distVars, clientVars>>

(* line 870, write_text: open(manifest_path, "w") truncates the file *)
FinalizeOpen(p) ==
    /\ upc[p] = "fin_open"
    /\ disk' = (ManifestRel(ucall[p].manifest) :> EmptyFile) @@ disk
    /\ upc' = [upc EXCEPT ![p] = "fin_write"]
    /\ UNCHANGED <<chunks, ucall, writes, putOk, sessVars, distVars, clientVars, resp>>

(* lines 870-872, write_text: write and close *)
FinalizeWrite(p) ==
    /\ upc[p] = "fin_write"
    /\ disk' = (ManifestRel(ucall[p].manifest)
                   :> WrittenOver(disk[ManifestRel(ucall[p].manifest)],
                                  NormalizedManifest(ucall[p].manifest))) @@ disk
    /\ upc' = [upc EXCEPT ![p] = "fin_update"]
    /\ UNCHANGED <<chunks, ucall, writes, putOk, sessVars, distVars, clientVars, resp>>

(* lines 874-879: UPDATE builds, commit *)
FinalizeUpdate(p) ==
    /\ upc[p] = "fin_update"
    /\ builds' = BuildReady(ucall[p].build_id, ManifestRel(ucall[p].manifest))
    /\ upc' = [upc EXCEPT ![p] = "fin_insert"]
    /\ UNCHANGED <<apps, submissions, purchases, chunks, disk, ucall, writes, putOk,
                   sessVars, clientVars, resp>>

(* lines 882-899: INSERT INTO submissions, commit, answer *)
FinalizeInsert(p) ==
    /\ upc[p] = "fin_insert"
    /\ submissions' = Append(submissions,
          NewSubmission(Len(submissions) + 1, ucall[p].user_id, ucall[p].manifest))
    /\ resp' = Answer("finalize_build", NULL, Ok,
                      [manifest_url |-> ManifestRel(ucall[p].manifest)])
    /\ upc' = [upc EXCEPT ![p] = "idle"]
    /\ ucall' = [ucall EXCEPT ![p] = NULL]
    /\ UNCHANGED <<apps, builds, purchases, chunks, disk, writes, putOk,
                   sessVars, clientVars>>

(* the manifests of the two calls: of version 1 with one file and with two *)
(* files, of version 2, and one that is refused                            *)
RaceManifests ==
    {ManifestOf(SlugY, Version1, "x"), [ManifestTwoFiles EXCEPT !.app = SlugY],
     ManifestOf(SlugY, Version2, "y"),
     [ManifestOf(SlugY, Version1, "x") EXCEPT !.total_size = 0]}

(* The developer calls finalize for the draft build in two handlers at a   *)
(* time.                                                                   *)
NextFinalizeRace ==
    \/ \E p \in UploadProcs, m \in RaceManifests : FinalizeStart(p, TokenOf(2), 1, m)
    \/ \E p \in UploadProcs : FinalizeOpen(p)
    \/ \E p \in UploadProcs : FinalizeWrite(p)
    \/ \E p \in UploadProcs : FinalizeUpdate(p)
    \/ \E p \in UploadProcs : FinalizeInsert(p)

SpecFinalizeRace == InitDiff /\ [][NextFinalizeRace]_vars

(* C36. Once the finalize calls for a build have returned, the build is    *)
(* ready and the file its manifest_url names holds one of the manifests    *)
(* that were submitted, whole.                                             *)
C36_LastWriteWins ==
    (/\ \A p \in UploadProcs : upc[p] = "idle"
     /\ submissions # <<>>)
        => \A i \in DOMAIN builds :
              /\ builds[i].status = "ready"
              /\ builds[i].manifest_url \in DOMAIN disk
              /\ disk[builds[i].manifest_url] \in
                    {NormalizedManifest(m) : m \in RaceManifests}

----------------------------------------------------------------------------
(* The player client: what a failed install leaves behind *)

(* C37. When install_from_manifest has failed, no file that the run wrote  *)
(* is at its place below the install directory.                            *)
C37_FailureLeavesNothing ==
    inst.pc = "failed" => \A path \in inst.written : path \notin DOMAIN fsys

----------------------------------------------------------------------------
(* The chunk store: its files and its index *)

(* C38. In every state, those between the steps of upload_chunk handlers   *)
(* included, the file of a chunk is on disk if and only if the chunk has a *)
(* row in chunks, so that a hash is reported missing exactly when it has   *)
(* no row.                                                                 *)
C38_IndexMatchesDisk ==
    \A h \in ChunkHashes : Exists(HexShard(h)) <=> ChunkRows(h) # {}

----------------------------------------------------------------------------
(* Roles: the endpoints that write users.role, and the role a gate reads *)

(* POST /api/auth/upgrade/dev. paid: dev_upgrade_payments holds an open    *)
(* payment of the caller, or PAYMENT_MODE is "test" and one is created;    *)
(* the payments are not kept in the model.                                 *)
AuthUpgradeDev(bearer, paid) ==
    LET auth == Authenticate(bearer)
    IN  /\ IF auth.status # 200
           THEN /\ resp' = Resp("upgrade_dev", auth.status, auth.detail)
                /\ UNCHANGED users
           ELSE IF auth.user.role \in {"dev", "admin"}
           THEN /\ resp' = Resp("upgrade_dev", 200, "already_enabled")
                /\ UNCHANGED users
           ELSE IF ~paid
           THEN /\ resp' = Resp("upgrade_dev", 402, "DEV_UPGRADE_PAYMENT_REQUIRED")
                /\ UNCHANGED users
           ELSE /\ users' = RoleSet(bearer.sub, "dev")
                /\ resp' = Resp("upgrade_dev", 200, "enabled")
        /\ UNCHANGED <<now, sessions, nextSecret, refreshTokens, accessTokens, rpc, rcall,
                       okCount>>
        /\ UNCHANGED <<storeVars, distVars, clientVars>>

(* POST /api/admin/users/{user_id}/dev-upgrade/grant *)
AdminGrantDevUpgrade(bearer, user_id) ==
    LET auth == RequireAdmin(bearer)
    IN  /\ IF auth.status # 200
           THEN /\ resp' = Resp("grant_dev", auth.status, auth.detail)
                /\ UNCHANGED <<users, sessions>>
           ELSE IF user_id \notin DOMAIN users
           THEN /\ resp' = Resp("grant_dev", 404, "user not found")
                /\ UNCHANGED <<users, sessions>>
           ELSE IF users[user_id].role = "admin"
           THEN /\ resp' = Resp("grant_dev", 400, "target user is already admin")
                /\ UNCHANGED <<users, sessions>>
           ELSE IF users[user_id].role = "dev"
           THEN /\ resp' = Resp("grant_dev", 200, "already_dev")
                /\ UNCHANGED <<users, sessions>>
           ELSE /\ users' = RoleSet(user_id, "dev")
                /\ sessions' = RevokedForUser(user_id)
                /\ resp' = Resp("grant_dev", 200, "granted")
        /\ UNCHANGED <<now, nextSecret, refreshTokens, accessTokens, rpc, rcall,
                       okCount>>
        /\ UNCHANGED <<storeVars, distVars, clientVars>>

(* admin_set_role step by step, set_role_by_id lines 443-445: the gate,    *)
(* the check of the role, UPDATE users SET role, commit                    *)
SetRoleUpdate(p, bearer, user_id, role) ==
    LET auth == RequireAdmin(bearer)
    IN  /\ upc[p] = "idle"
        /\ IF auth.status # 200
           THEN /\ resp' = Resp("set_role", auth.status, auth.detail)
                /\ UNCHANGED <<users, upc, ucall>>
           ELSE IF role \notin Roles
           THEN /\ resp' = Resp("set_role", 400, "invalid role")
                /\ UNCHANGED <<users, upc, ucall>>
           ELSE /\ users' = RoleSet(user_id, role)
                /\ upc' = [upc EXCEPT ![p] = "role_revoke"]
                /\ ucall' = [ucall EXCEPT ![p] = [user_id |-> user_id]]
                /\ UNCHANGED resp
        /\ UNCHANGED <<now, sessions, nextSecret, refreshTokens, accessTokens, rpc, rcall,
                       okCount>>
        /\ UNCHANGED <<chunks, disk, writes, putOk, distVars, clientVars>>

(* set_role_by_id lines 446-451: revoke_sessions_for_user, the answer *)
SetRoleRevoke(p) ==
    /\ upc[p] = "role_revoke"
    /\ sessions' = RevokedForUser(ucall[p].user_id)
    /\ resp' = IF ucall[p].user_id \in DOMAIN users
               THEN Resp("set_role", 200, "")
               ELSE Resp("set_role", 404, "user not found")
    /\ upc' = [upc EXCEPT ![p] = "idle"]
    /\ ucall' = [ucall EXCEPT ![p] = NULL]
    /\ UNCHANGED <<now, users, nextSecret, refreshTokens, accessTokens, rpc, rcall,
                   okCount>>
    /\ UNCHANGED <<chunks, disk, writes, putOk, distVars, clientVars>>

(* a call of a developer endpoint with this token *)
PublisherOp(b) ==
    \/ CreateApp(b, SlugX)
    \/ CreateBuild(b, 1, Version1, Mac, Stable)

(* a call of an admin endpoint with this token *)
AdminOp(b) ==
    \/ ListSubmissions(b, "")
    \/ \E r \in {"user", "dev"} : SetRoleUpdate("u1", b, 1, r)

(* The account is admin; its first token was issued at registration and    *)
(* claims the role user. It logs in again, upgrades, calls developer and   *)
(* admin endpoints with either token and lowers its own role; time passes. *)
NextStaleRole ==
    \/ AuthLogin("e1", "pw1", NoDevice)
    \/ \E b \in accessTokens, paid \in BOOLEAN : AuthUpgradeDev(b, paid)
    \/ \E b \in accessTokens : PublisherOp(b)
    \/ \E b \in accessTokens : AdminOp(b)
    \/ SetRoleRevoke("u1")
    \/ Tick

SpecStaleRole == InitAuth /\ [][NextStaleRole]_vars

(* the token was issued under a role that passes the developer gate, or    *)
(* the admin gate, and the role of the users row no longer does            *)
StaleDev(b) == b.role \in {"dev", "admin"} /\ users[b.sub].role = "user"

StaleAdmin(b) == b.role = "admin" /\ users[b.sub].role # "admin"

(* C39. A call of a developer endpoint with a token that claims dev or     *)
(* admin, made when the users row says user, is refused and changes        *)
(* nothing, and so is a call of an admin endpoint with a token that claims *)
(* admin when the users row does not; while the session of the token is    *)
(* active the answer is the 403 of the gate.                               *)
C39_StoredRoleDecides ==
    [][\A b \in accessTokens :
          /\ (StaleDev(b) /\ ~Refused(IF Authorized(b) THEN {403} ELSE {401}))
                => ~PublisherOp(b)
          /\ (StaleAdmin(b) /\ ~Refused(IF Authorized(b) THEN {403} ELSE {401}))
                => ~AdminOp(b)]_vars

(* a token that claims admin was refused by the developer gate while its   *)
(* session is active: the role is lowered and the sessions are not revoked *)
(* yet                                                                     *)
C39_Witness ==
    /\ resp.op = "create_app"
    /\ resp.status = 403
    /\ upc["u1"] = "role_revoke"
    /\ \E b \in accessTokens : StaleDev(b) /\ b.role = "admin" /\ Authorized(b)

----------------------------------------------------------------------------
(* Roles: who becomes admin *)

(* a fresh installation: one registered account, no admin *)
InitEscalate ==
    /\ Registered(<<"user">>, <<NoDevice>>)
    /\ StoreEmpty
    /\ DistEmpty
    /\ ClientIdle
    /\ resp = NoResp

(* the secrets a caller of bootstrap-admin presents *)
SecretsTried == {BootstrapSecret, "guess", ""}

(* the roles a caller of admin_set_role asks for *)
RolesAsked == Roles \cup {"root"}

(* A second account registers; anybody calls bootstrap-admin with a secret *)
(* of their choice; every holder of a token calls the upgrade, the grant   *)
(* and the set-role endpoint for every account; time passes.               *)
NextEscalate ==
    \/ AuthRegister("e2", "pw1", NoDevice)
    \/ \E e \in {"e1", "e2"}, secret \in SecretsTried : AuthBootstrapAdmin(e, secret)
    \/ \E b \in accessTokens, paid \in BOOLEAN : AuthUpgradeDev(b, paid)
    \/ \E b \in accessTokens, u \in 1..3 : AdminGrantDevUpgrade(b, u)
    \/ \E b \in accessTokens, u \in 1..3, r \in RolesAsked : AdminSetRole(b, u, r)
    \/ Tick

SpecEscalate == InitEscalate /\ [][NextEscalate]_vars

(* the role of the users row id, "" when there is no such row *)
StoredRole(id) == IF id \in DOMAIN users THEN users[id].role ELSE ""

(* the step is a set-role call for u that answered 200, made with a valid  *)
(* token of an account that is admin                                       *)
SetByAdmin(u) ==
    /\ resp'.op = "set_role"
    /\ resp'.status = 200
    /\ \E b \in accessTokens :
          /\ Authorized(b)
          /\ StoredRole(b.sub) = "admin"
          /\ AdminSetRole(b, u, "admin")

(* the step is a bootstrap call for u that presented the configured secret *)
SetByBootstrap(u) ==
    /\ resp'.op = "bootstrap"
    /\ resp'.status = 200
    /\ BootstrapSecret # ""
    /\ AuthBootstrapAdmin(users[u].email, BootstrapSecret)

(* C40. A users row becomes admin only in a set-role call of a caller who  *)
(* is admin or in a bootstrap call with the configured secret; a new row   *)
(* has the role user; the upgrade and the grant change a role only to dev, *)
(* and never the role of an admin.                                         *)
C40_NoEscalation ==
    [][\A u \in DOMAIN users' :
          /\ u \notin DOMAIN users => users'[u].role = "user"
          /\ (u \in DOMAIN users /\ users'[u].role = "admin" /\ users[u].role # "admin")
                => (SetByAdmin(u) \/ SetByBootstrap(u))
          /\ (u \in DOMAIN users /\ resp'.op \in {"upgrade_dev", "grant_dev"}
                /\ users'[u].role # users[u].role)
                => (users'[u].role = "dev" /\ users[u].role = "user")]_vars

(* both accounts are admin, and the last call is a set-role call that an   *)
(* admin made                                                              *)
C40_Witness ==
    /\ Len(users) = 2
    /\ users[1].role = "admin"
    /\ users[2].role = "admin"
    /\ resp.op = "set_role"
    /\ resp.status = 200

====
